---- MODULE Spec2Model ----
(***************************************************************************)
(* State-machine model of the AI website builder API:                      *)
(*   - JobsProcessor (processJob and its four handlers) over the Site,     *)
(*     SiteVersion and Job rows;                                           *)
(*   - WordPressService content compilers (page -> HTML / Gutenberg);      *)
(*   - AiService.generateSiteContent / generateSectionVariations;          *)
(*   - BillingService.hasActiveSubscription;                               *)
(*   - AuthService.signup.                                                 *)
(* Strings produced by the compilers are modelled as sequences of lexical  *)
(* tokens; database ids are small integers or short strings.               *)
(***************************************************************************)
EXTENDS Integers, Sequences, FiniteSets, TLC

NULL == "null"
\* null in a column or variable that holds a number or a row id
NoId == -1

(***************************************************************************)
(* Bounds of the model.                                                    *)
(***************************************************************************)
\* number of jobs that are ever enqueued
MaxJobs == 2
\* worker processes of a scaled-out deployment (specification SpecConcurrent)
MaxWorkers == 2

(***************************************************************************)
(* Program constants.                                                      *)
(***************************************************************************)
\* the Worker is constructed without a concurrency option: BullMQ runs one
\* job at a time per worker
WorkerConcurrency == 1

JobIds == 1..MaxJobs
\* rows of the sites table
SiteIds == {"s1", "s2"}
\* a site id that a queued job may carry although no row has it
GhostSite == "s0"
\* site ids that jobs are enqueued for; the other site of SiteIds belongs to
\* another owner and is only there to be referred to
JobSiteIds == {"s1", GhostSite}

\* enum JobType, and a type string the switch does not know
JobTypes == {"provision", "generate", "publish", "rollback"}
QueueTypes == JobTypes \cup {"export"}

\* SiteSettings values a request may carry
SettingsValues == {"B"}
\* SiteSettings of the versions that exist at the start
SeedSettings == "A"
\* version ids a rollback request may name
VersionRefs == {1, 2}

\* blog ids `wp site create --porcelain` prints
RealWpIds == {4}
\* samples of Math.floor(Math.random() * 10000)
MockWpIds == {0, 7}

VARIABLES
    site,       \* sites table: id -> row
    versions,   \* site_versions table: sequence of rows, the id is the index
    job,        \* jobs table joined with the processor's position in processJob
    workers,    \* number of jobs the deployment processes at the same time
    devMode,    \* NODE_ENV === 'development'
    ai,         \* AiService: its OpenAI client and the call in progress
    blk,        \* a block handed to the two block compilers, and their output
    pg,         \* a page handed to the two page compilers, and their output
    bill,       \* BillingService: Stripe configuration, subscription rows
    auth,       \* AuthService: tenant, user and membership rows, requests
    wp          \* WordPressService: NODE_ENV, the pages of one subsite, the call

jobVars == <<site, versions, job, workers, devMode>>
\* the services a job step does not touch
apiVars == <<ai, blk, pg, bill, auth, wp>>

(***************************************************************************)
(* Rows.                                                                   *)
(***************************************************************************)
\* model Site: defaults of a freshly created row
NewSite ==
    [status |-> "provisioning", wpSiteId |-> NoId, wpAdminUrl |-> NULL,
     wpSiteUrl |-> NULL, currentVersionId |-> NoId, publishedVersionId |-> NoId]

\* interface ProvisionResult, before provisionSite has returned
NoWpResult == [threw |-> FALSE, wpSiteId |-> NoId, wpAdminUrl |-> NULL, wpSiteUrl |-> NULL]

\* model Job (status defaults to pending) and the locals of processJob
NoJob ==
    [type |-> NULL, siteId |-> NULL, metaSettings |-> NULL, metaVersionId |-> NoId,
     status |-> NULL, error |-> NULL, pc |-> "absent",
     handler |-> NULL, calls |-> 0, thrown |-> NULL, caught |-> NULL,
     wpResult |-> NoWpResult, wpSiteId |-> NoId, settings |-> NULL, aiCalled |-> FALSE,
     nextVersion |-> 0, version |-> NoId, writes |-> << >>]

SiteExists(s) == s \in SiteIds

VersionIds == 1..Len(versions)

\* versions of site s
VersionsOf(s) == {v \in VersionIds : versions[v].siteId = s}

\* orderBy versionNumber desc, take 1: NULL when the site has no version
LatestVersion(s) ==
    IF VersionsOf(s) = {} THEN NoId
    ELSE CHOOSE v \in VersionsOf(s) :
            \A w \in VersionsOf(s) : versions[w].versionNumber <= versions[v].versionNumber

\* jobs a worker is processing
Active == {j \in JobIds : job[j].pc \notin {"absent", "queued", "done"}}


(***************************************************************************)
(* JobsProcessor.                                                          *)
(***************************************************************************)
\* throw inside the try block of processJob: control moves to the catch clause
Throw(j, msg) == [job[j] EXCEPT !.pc = "catch", !.caught = msg]

\* a switch whose default falls back to generation and whose publish case
\* falls through to rollback
HandlerForFallthrough(type) ==
    CASE type = "provision" -> "handleProvision"
      [] type = "publish" -> "handleRollback"
      [] type = "rollback" -> "handleRollback"
      [] OTHER -> "handleGenerate"

\* the switch of processJob: the handler a job type selects, NULL for default
HandlerFor(type) ==
    CASE type = "provision" -> "handleProvision"
      [] type = "generate" -> "handleGenerate"
      [] type = "publish" -> "handlePublish"
      [] type = "rollback" -> "handleRollback"
      [] OTHER -> NULL

\* first step of each handler
EntryOf(handler) ==
    CASE handler = "handleProvision" -> "prov_update"
      [] handler = "handleGenerate" -> "gen_find"
      [] handler = "handlePublish" -> "pub_find"
      [] handler = "handleRollback" -> "rb_find"

\* processJob ends: the last updateJobStatus, the error rethrown (NULL when it
\* returns normally); the locals of the call are gone
Return(j, status, err) ==
    [NoJob EXCEPT !.type = job[j].type, !.siteId = job[j].siteId,
                  !.metaSettings = job[j].metaSettings,
                  !.metaVersionId = job[j].metaVersionId,
                  !.handler = job[j].handler, !.calls = job[j].calls,
                  !.aiCalled = job[j].aiCalled, !.writes = job[j].writes,
                  !.caught = job[j].caught,
                  !.status = status, !.error = err, !.thrown = err, !.pc = "done"]

\* the API stores a job row (status pending) and adds its data to the queue
Enqueue(j) ==
    /\ job[j].pc = "absent"
    /\ \A k \in JobIds : k < j => job[k].pc # "absent"
    /\ \E t \in QueueTypes :
        \E s \in (IF t \in JobTypes THEN JobSiteIds ELSE {"s1"}),
           st \in (IF t \in {"provision", "generate"} THEN SettingsValues \cup {NULL} ELSE {NULL}),
           vid \in (IF t = "rollback" THEN VersionRefs \cup {NoId} ELSE {NoId}) :
            job' = [job EXCEPT ![j] =
                      [NoJob EXCEPT !.type = t, !.siteId = s, !.metaSettings = st,
                                    !.metaVersionId = vid, !.status = "pending",
                                    !.pc = "queued"]]
    /\ UNCHANGED <<site, versions, workers, devMode, apiVars>>

\* processJob: updateJobStatus(jobId, running)
Start(j) ==
    /\ job[j].pc = "queued"
    /\ Cardinality(Active) < workers
    /\ job' = [job EXCEPT ![j].status = "running", ![j].pc = "dispatch"]
    /\ UNCHANGED <<site, versions, workers, devMode, apiVars>>

\* processJob: switch (type)
Dispatch(j) ==
    /\ job[j].pc = "dispatch"
    /\ LET h == HandlerFor(job[j].type) IN
         job' = [job EXCEPT ![j] =
                   IF h = NULL
                   THEN Throw(j, "Unknown job type: " \o job[j].type)
                   ELSE [job[j] EXCEPT !.handler = h, !.calls = @ + 1, !.pc = EntryOf(h)]]
    /\ UNCHANGED <<site, versions, workers, devMode, apiVars>>

\* processJob: the handler returned, updateJobStatus(jobId, completed)
Complete(j) ==
    /\ job[j].pc = "return"
    /\ job' = [job EXCEPT ![j] = Return(j, "completed", NULL)]
    /\ UNCHANGED <<site, versions, workers, devMode, apiVars>>

\* a catch clause that only rethrows
CatchWithoutStatus(j) ==
    /\ job[j].pc = "catch"
    /\ job' = [job EXCEPT ![j] = Return(j, job[j].status, job[j].caught)]
    /\ UNCHANGED <<site, versions, workers, devMode, apiVars>>

\* a catch clause that runs the switch again instead of rethrowing
CatchAndRetry(j) ==
    /\ job[j].pc = "catch"
    /\ job' = [job EXCEPT ![j].status = "failed", ![j].error = job[j].caught,
                          ![j].pc = "dispatch"]
    /\ UNCHANGED <<site, versions, workers, devMode, apiVars>>

\* a catch clause that also marks the site: site.update({ status: error })
CatchMarksError(j) ==
    /\ job[j].pc = "catch"
    /\ job' = [job EXCEPT ![j] = Return(j, "failed", job[j].caught)]
    /\ site' = IF SiteExists(job[j].siteId)
               THEN [site EXCEPT ![job[j].siteId].status = "error"]
               ELSE site
    /\ UNCHANGED <<versions, workers, devMode, apiVars>>

\* processJob: catch (error): updateJobStatus(jobId, failed, message); throw error
Catch(j) ==
    /\ job[j].pc = "catch"
    /\ job' = [job EXCEPT ![j] = Return(j, "failed", job[j].caught)]
    /\ UNCHANGED <<site, versions, workers, devMode, apiVars>>

(***************************************************************************)
(* handleProvision.                                                        *)
(***************************************************************************)
\* prisma.site.update({ status: provisioning }): rejects when the row is missing
ProvisionUpdate(j) ==
    /\ job[j].pc = "prov_update"
    /\ LET s == job[j].siteId IN
         IF SiteExists(s)
         THEN /\ site' = [site EXCEPT ![s].status = "provisioning"]
              /\ job' = [job EXCEPT ![j].pc = "prov_find",
                                    ![j].writes = Append(@, "provisioning")]
         ELSE /\ job' = [job EXCEPT ![j] = Throw(j, "Record to update not found")]
              /\ UNCHANGED site
    /\ UNCHANGED <<versions, workers, devMode, apiVars>>

\* prisma.site.findUnique, if (!site) throw
ProvisionFind(j) ==
    /\ job[j].pc = "prov_find"
    /\ job' = [job EXCEPT ![j] =
                 IF SiteExists(job[j].siteId)
                 THEN [job[j] EXCEPT !.pc = "prov_wp"]
                 ELSE Throw(j, "Site not found")]
    /\ UNCHANGED <<site, versions, workers, devMode, apiVars>>

\* the URLs provisionSite derives from the site row
SiteUrl(s) == "url-" \o s
AdminUrl(s) == "url-" \o s \o "/wp-admin"

\* WordPressService.provisionSite: `created` is the parsed site id of a
\* successful `site create`, NoId when the command fails or prints no number
ProvisionSiteResult(s, created, mock) ==
    IF created # NoId
    THEN [threw |-> FALSE, wpSiteId |-> created,
          wpAdminUrl |-> AdminUrl(s), wpSiteUrl |-> SiteUrl(s)]
    ELSE IF devMode
         THEN [threw |-> FALSE, wpSiteId |-> mock,
               wpAdminUrl |-> AdminUrl(s), wpSiteUrl |-> SiteUrl(s)]
         ELSE [NoWpResult EXCEPT !.threw = TRUE]

\* wordpressService.provisionSite(site)
ProvisionWp(j) ==
    /\ job[j].pc = "prov_wp"
    /\ \E created \in RealWpIds \cup {NoId}, mock \in MockWpIds :
         LET r == ProvisionSiteResult(job[j].siteId, created, mock) IN
           job' = [job EXCEPT ![j] =
                     IF r.threw THEN Throw(j, "wp-cli failed")
                     ELSE [job[j] EXCEPT !.wpResult = r, !.pc = "prov_store"]]
    /\ UNCHANGED <<site, versions, workers, devMode, apiVars>>

\* an update that sets the status and leaves the WordPress details for later
ProvisionStoreStatusOnly(j) ==
    /\ job[j].pc = "prov_store"
    /\ site' = [site EXCEPT ![job[j].siteId].status = "generating"]
    /\ job' = [job EXCEPT ![j].pc = "prov_theme", ![j].writes = Append(@, "generating")]
    /\ UNCHANGED <<versions, workers, devMode, apiVars>>

\* prisma.site.update with the WordPress details and status generating
ProvisionStore(j) ==
    /\ job[j].pc = "prov_store"
    /\ LET s == job[j].siteId
           r == job[j].wpResult IN
         /\ site' = [site EXCEPT ![s].wpSiteId = r.wpSiteId,
                                 ![s].wpAdminUrl = r.wpAdminUrl,
                                 ![s].wpSiteUrl = r.wpSiteUrl,
                                 ![s].status = "generating"]
         /\ job' = [job EXCEPT ![j].pc = "prov_theme",
                               ![j].writes = Append(@, "generating")]
    /\ UNCHANGED <<versions, workers, devMode, apiVars>>

\* wordpressService.applyThemeAndPlugins, then handleGenerate
ProvisionTheme(j) ==
    /\ job[j].pc = "prov_theme"
    /\ \E ok \in BOOLEAN :
         job' = [job EXCEPT ![j] =
                   IF ok \/ devMode THEN [job[j] EXCEPT !.pc = "gen_find"]
                   ELSE Throw(j, "wp-cli failed")]
    /\ UNCHANGED <<site, versions, workers, devMode, apiVars>>

(***************************************************************************)
(* handleGenerate.                                                         *)
(***************************************************************************)
\* existingContent?.settings || metadata?.settings
SettingsForLatestFirst(j) ==
    IF LatestVersion(job[j].siteId) # NoId
    THEN versions[LatestVersion(job[j].siteId)].settings
    ELSE job[j].metaSettings

\* metadata?.settings || existingContent?.settings
SettingsFor(j) ==
    IF job[j].metaSettings # NULL THEN job[j].metaSettings
    ELSE IF LatestVersion(job[j].siteId) # NoId
         THEN versions[LatestVersion(job[j].siteId)].settings
         ELSE NULL

\* prisma.site.findUnique with the latest version, the settings, and
\* aiService.generateSiteContent(settings), which returns the settings it is given
GenerateFind(j) ==
    /\ job[j].pc = "gen_find"
    /\ job' = [job EXCEPT ![j] =
                 IF ~SiteExists(job[j].siteId) THEN Throw(j, "Site not found")
                 ELSE IF SettingsFor(j) = NULL
                      THEN Throw(j, "No settings found for generation")
                      ELSE [job[j] EXCEPT !.settings = SettingsFor(j), !.aiCalled = TRUE,
                                          !.pc = "gen_max"]]
    /\ UNCHANGED <<site, versions, workers, devMode, apiVars>>

\* (maxVersion?.versionNumber || 1) + 1
NextVersionNumberFromOne(s) ==
    (IF LatestVersion(s) = NoId THEN 1 ELSE versions[LatestVersion(s)].versionNumber) + 1

\* (maxVersion?.versionNumber || 0) + 1
NextVersionNumber(s) ==
    (IF LatestVersion(s) = NoId THEN 0 ELSE versions[LatestVersion(s)].versionNumber) + 1

\* prisma.siteVersion.findFirst, highest version number of the site
GenerateMax(j) ==
    /\ job[j].pc = "gen_max"
    /\ job' = [job EXCEPT ![j].nextVersion = NextVersionNumber(job[j].siteId),
                          ![j].pc = "gen_create"]
    /\ UNCHANGED <<site, versions, workers, devMode, apiVars>>

\* a table without @@unique([siteId, versionNumber])
VersionTakenNever(s, n) == FALSE

\* @@unique([siteId, versionNumber])
VersionTaken(s, n) == \E v \in VersionsOf(s) : versions[v].versionNumber = n

\* prisma.siteVersion.create
GenerateCreate(j) ==
    /\ job[j].pc = "gen_create"
    /\ LET s == job[j].siteId
           n == job[j].nextVersion IN
         IF VersionTaken(s, n)
         THEN /\ job' = [job EXCEPT ![j] = Throw(j, "Unique constraint failed")]
              /\ UNCHANGED versions
         ELSE /\ versions' = Append(versions,
                               [siteId |-> s, versionNumber |-> n,
                                settings |-> job[j].settings, createdBy |-> j])
              /\ job' = [job EXCEPT ![j].version = Len(versions) + 1,
                                    ![j].pc = "gen_update"]
    /\ UNCHANGED <<site, workers, devMode, apiVars>>

\* handleGenerate's site.update that also moves publishedVersionId
GenerateUpdateRepublishes(j) ==
    /\ job[j].pc = "gen_update"
    /\ site' = [site EXCEPT ![job[j].siteId].status = "draft",
                            ![job[j].siteId].currentVersionId = job[j].version,
                            ![job[j].siteId].publishedVersionId = job[j].version]
    /\ job' = [job EXCEPT ![j].pc = "return", ![j].writes = Append(@, "draft")]
    /\ UNCHANGED <<versions, workers, devMode, apiVars>>

\* prisma.site.update({ status: draft, currentVersionId: version.id })
GenerateUpdate(j) ==
    /\ job[j].pc = "gen_update"
    /\ site' = [site EXCEPT ![job[j].siteId].status = "draft",
                            ![job[j].siteId].currentVersionId = job[j].version]
    /\ job' = [job EXCEPT ![j].pc = "return", ![j].writes = Append(@, "draft")]
    /\ UNCHANGED <<versions, workers, devMode, apiVars>>

(***************************************************************************)
(* WordPressService.publishVersion as the handlers see it.                 *)
(***************************************************************************)
\* publishVersion throws only outside development mode
PublishThrows(ok) == ~ok /\ ~devMode

(***************************************************************************)
(* handlePublish.                                                          *)
(***************************************************************************)
\* prisma.site.findUnique and the three checks on the site row
PublishFind(j) ==
    /\ job[j].pc = "pub_find"
    /\ LET s == job[j].siteId IN
         job' = [job EXCEPT ![j] =
                   IF ~SiteExists(s) THEN Throw(j, "Site not found")
                   ELSE IF site[s].currentVersionId = NoId
                        THEN Throw(j, "No current version to publish")
                        ELSE IF site[s].wpSiteId \in {NoId, 0}
                             THEN Throw(j, "WordPress site not provisioned")
                             ELSE [job[j] EXCEPT !.version = site[s].currentVersionId,
                                                 !.wpSiteId = site[s].wpSiteId,
                                                 !.pc = "pub_version"]]
    /\ UNCHANGED <<site, versions, workers, devMode, apiVars>>

\* prisma.siteVersion.findUnique({ id: site.currentVersionId })
PublishVersion(j) ==
    /\ job[j].pc = "pub_version"
    /\ job' = [job EXCEPT ![j] =
                 IF job[j].version \notin VersionIds THEN Throw(j, "Version not found")
                 ELSE [job[j] EXCEPT !.pc = "pub_wp"]]
    /\ UNCHANGED <<site, versions, workers, devMode, apiVars>>

\* a publish that marks the site published before WordPress has answered
PublishWpMarksFirst(j) ==
    /\ job[j].pc = "pub_wp"
    /\ \E ok \in BOOLEAN :
         job' = [job EXCEPT ![j] =
                   IF PublishThrows(ok) THEN Throw(j, "wp-cli failed")
                   ELSE [job[j] EXCEPT !.pc = "pub_update"]]
    /\ site' = [site EXCEPT ![job[j].siteId].status = "published"]
    /\ UNCHANGED <<versions, workers, devMode, apiVars>>

\* wordpressService.publishVersion(site.wpSiteId, version.pageJson)
PublishWp(j) ==
    /\ job[j].pc = "pub_wp"
    /\ \E ok \in BOOLEAN :
         job' = [job EXCEPT ![j] =
                   IF PublishThrows(ok) THEN Throw(j, "wp-cli failed")
                   ELSE [job[j] EXCEPT !.pc = "pub_update"]]
    /\ UNCHANGED <<site, versions, workers, devMode, apiVars>>

\* prisma.site.update({ status: published, publishedVersionId: version.id })
PublishUpdate(j) ==
    /\ job[j].pc = "pub_update"
    /\ site' = [site EXCEPT ![job[j].siteId].status = "published",
                            ![job[j].siteId].publishedVersionId = job[j].version]
    /\ job' = [job EXCEPT ![j].pc = "return", ![j].writes = Append(@, "published")]
    /\ UNCHANGED <<versions, workers, devMode, apiVars>>

(***************************************************************************)
(* handleRollback.                                                         *)
(***************************************************************************)
\* the versionId check, prisma.site.findUnique and the check of wpSiteId
RollbackFind(j) ==
    /\ job[j].pc = "rb_find"
    /\ LET s == job[j].siteId IN
         job' = [job EXCEPT ![j] =
                   IF job[j].metaVersionId = NoId
                   THEN Throw(j, "Version ID required for rollback")
                   ELSE IF ~SiteExists(s) THEN Throw(j, "Site not found")
                   ELSE IF site[s].wpSiteId \in {NoId, 0}
                        THEN Throw(j, "WordPress site not provisioned")
                        ELSE [job[j] EXCEPT !.wpSiteId = site[s].wpSiteId,
                                            !.pc = "rb_version"]]
    /\ UNCHANGED <<site, versions, workers, devMode, apiVars>>

\* handleRollback with the check of version.siteId left out
RollbackVersionAnySite(j) ==
    /\ job[j].pc = "rb_version"
    /\ LET v == job[j].metaVersionId IN
         job' = [job EXCEPT ![j] =
                   IF v \notin VersionIds
                   THEN Throw(j, "Version not found")
                   ELSE [job[j] EXCEPT !.version = v, !.pc = "rb_wp"]]
    /\ UNCHANGED <<site, versions, workers, devMode, apiVars>>

\* prisma.siteVersion.findUnique({ id: versionId }) and the siteId check
RollbackVersion(j) ==
    /\ job[j].pc = "rb_version"
    /\ LET v == job[j].metaVersionId IN
         job' = [job EXCEPT ![j] =
                   IF v \notin VersionIds \/ versions[v].siteId # job[j].siteId
                   THEN Throw(j, "Version not found")
                   ELSE [job[j] EXCEPT !.version = v, !.pc = "rb_wp"]]
    /\ UNCHANGED <<site, versions, workers, devMode, apiVars>>

\* wordpressService.publishVersion(site.wpSiteId, version.pageJson)
RollbackWp(j) ==
    /\ job[j].pc = "rb_wp"
    /\ \E ok \in BOOLEAN :
         job' = [job EXCEPT ![j] =
                   IF PublishThrows(ok) THEN Throw(j, "wp-cli failed")
                   ELSE [job[j] EXCEPT !.pc = "rb_update"]]
    /\ UNCHANGED <<site, versions, workers, devMode, apiVars>>

\* a rollback that republishes without moving currentVersionId
RollbackUpdatePublishedOnly(j) ==
    /\ job[j].pc = "rb_update"
    /\ site' = [site EXCEPT ![job[j].siteId].status = "published",
                            ![job[j].siteId].publishedVersionId = job[j].version]
    /\ job' = [job EXCEPT ![j].pc = "return", ![j].writes = Append(@, "published")]
    /\ UNCHANGED <<versions, workers, devMode, apiVars>>

\* prisma.site.update({ currentVersionId, publishedVersionId, status: published })
RollbackUpdate(j) ==
    /\ job[j].pc = "rb_update"
    /\ site' = [site EXCEPT ![job[j].siteId].status = "published",
                            ![job[j].siteId].currentVersionId = job[j].version,
                            ![job[j].siteId].publishedVersionId = job[j].version]
    /\ job' = [job EXCEPT ![j].pc = "return", ![j].writes = Append(@, "published")]
    /\ UNCHANGED <<versions, workers, devMode, apiVars>>

(***************************************************************************)
(* The parts of the state a specification does not exercise stay as they   *)
(* are constructed.                                                        *)
(***************************************************************************)
AiRest == ai = [none |-> TRUE]
BlkRest == blk = [none |-> TRUE]
PgRest == pg = [none |-> TRUE]
BillRest == bill = [none |-> TRUE]
AuthRest == auth = [none |-> TRUE]
WpRest == wp = [none |-> TRUE]
ApiRest == AiRest /\ BlkRest /\ PgRest /\ BillRest /\ AuthRest /\ WpRest

JobRest ==
    /\ site = [s \in SiteIds |-> NewSite]
    /\ versions = << >>
    /\ job = [j \in JobIds |-> NoJob]
    /\ workers = 0
    /\ devMode = FALSE

(***************************************************************************)
(* Specifications of the job processor.                                    *)
(***************************************************************************)
\* a site row after a provision job has completed
DraftSite(s, wpSiteId, v) ==
    [status |-> "draft", wpSiteId |-> wpSiteId, wpAdminUrl |-> AdminUrl(s),
     wpSiteUrl |-> SiteUrl(s), currentVersionId |-> v, publishedVersionId |-> NoId]

\* a version row made by a job that ran before the start
SeedVersion(s) ==
    [siteId |-> s, versionNumber |-> 1, settings |-> SeedSettings, createdBy |-> 0]

\* The database at the start: site s2 was provisioned and published earlier;
\* site s1 is either newly created or was provisioned earlier.
JobInit(w) ==
    /\ \E fresh \in BOOLEAN :
         /\ site = [s \in SiteIds |->
                     IF s = "s2"
                     THEN [DraftSite(s, 3, 1) EXCEPT !.status = "published",
                                                     !.publishedVersionId = 1]
                     ELSE IF fresh THEN NewSite ELSE DraftSite(s, 2, 2)]
         /\ versions = IF fresh THEN <<SeedVersion("s2")>>
                       ELSE <<SeedVersion("s2"), SeedVersion("s1")>>
    /\ job = [j \in JobIds |-> NoJob]
    /\ workers = w
    /\ devMode \in BOOLEAN

JobStep(j) ==
    \/ Enqueue(j)
    \/ Start(j)
    \/ Dispatch(j)
    \/ Complete(j)
    \/ Catch(j)
    \/ ProvisionUpdate(j)
    \/ ProvisionFind(j)
    \/ ProvisionWp(j)
    \/ ProvisionStore(j)
    \/ ProvisionTheme(j)
    \/ GenerateFind(j)
    \/ GenerateMax(j)
    \/ GenerateCreate(j)
    \/ GenerateUpdate(j)
    \/ PublishFind(j)
    \/ PublishVersion(j)
    \/ PublishWp(j)
    \/ PublishUpdate(j)
    \/ RollbackFind(j)
    \/ RollbackVersion(j)
    \/ RollbackWp(j)
    \/ RollbackUpdate(j)

vars == <<jobVars, apiVars>>

Init == JobInit(WorkerConcurrency) /\ ApiRest

Next == \E j \in JobIds : JobStep(j)

\* one worker with the default concurrency: jobs are processed one at a time
Spec == Init /\ [][Next]_vars

\* several worker processes on the same queue
InitConcurrent == JobInit(MaxWorkers) /\ ApiRest

SpecConcurrent == InitConcurrent /\ [][Next]_vars

(***************************************************************************)
(* Properties of processJob.                                               *)
(***************************************************************************)
ProvisionPcs == {"prov_update", "prov_find", "prov_wp", "prov_store", "prov_theme"}
GeneratePcs == {"gen_find", "gen_max", "gen_create", "gen_update"}
PublishPcs == {"pub_find", "pub_version", "pub_wp", "pub_update"}
RollbackPcs == {"rb_find", "rb_version", "rb_wp", "rb_update"}
HandlerPcs == ProvisionPcs \cup GeneratePcs \cup PublishPcs \cup RollbackPcs

\* job j is inside processJob
InProcess(j) == job[j].pc \in HandlerPcs \cup {"dispatch", "return", "catch"}

\* job j takes a step
Steps(j) == job'[j] # job[j]

\* C1: a job is pending while it waits and running from the first statement of
\* processJob until its last status write, so no handler step executes before
\* the status is running; when processJob has finished the status is
\* completed exactly if no step threw and failed, with the message of the
\* error recorded, exactly if a step threw; it is never running or pending.
C1_JobLifecycle ==
    \A j \in JobIds :
        /\ job[j].pc = "queued" => job[j].status = "pending"
        /\ InProcess(j) => job[j].status = "running"
        /\ job[j].pc = "done" =>
              /\ job[j].status \in {"completed", "failed"}
              /\ job[j].status = "completed" <=> job[j].caught = NULL
              /\ job[j].status = "failed" <=> job[j].caught # NULL
              /\ job[j].error = job[j].caught

\* a job whose handler threw has ended failed and another has ended completed
C1_Witness ==
    \E j, k \in JobIds :
        /\ job[j].pc = "done" /\ job[j].calls = 1 /\ job[j].status = "failed"
        /\ job[j].error = "wp-cli failed"
        /\ job[k].pc = "done" /\ job[k].status = "completed"

\* the steps a handler is made of
PcsOf(handler) ==
    CASE handler = "handleProvision" -> ProvisionPcs \cup GeneratePcs
      [] handler = "handleGenerate" -> GeneratePcs
      [] handler = "handlePublish" -> PublishPcs
      [] handler = "handleRollback" -> RollbackPcs

\* the handler the claim assigns to each job type
C2_Expected ==
    [t \in JobTypes |->
        CASE t = "provision" -> "handleProvision"
          [] t = "generate" -> "handleGenerate"
          [] t = "publish" -> "handlePublish"
          [] t = "rollback" -> "handleRollback"]

C2_State ==
    \A j \in JobIds :
        /\ job[j].type \in JobTypes /\ job[j].pc \notin {"absent", "queued", "dispatch"} =>
              /\ job[j].handler = C2_Expected[job[j].type]
              /\ job[j].calls = 1
              /\ job[j].pc \in HandlerPcs => job[j].pc \in PcsOf(C2_Expected[job[j].type])
        /\ job[j].pc # "absent" /\ job[j].type \notin JobTypes =>
              /\ job[j].handler = NULL /\ job[j].calls = 0
              /\ job[j].pc \notin HandlerPcs \cup {"return"}
              /\ job[j].pc = "done" =>
                    /\ job[j].status = "failed"
                    /\ job[j].error = "Unknown job type: " \o job[j].type

C2_Step ==
    \A j \in JobIds :
        job[j].pc # "absent" /\ job[j].type \notin JobTypes /\ Steps(j)
            => UNCHANGED <<site, versions>>

\* C2: a job of type provision, generate, publish or rollback runs the steps
\* of exactly one handler, the one its type selects; a job of any other type
\* runs no handler step, none of its steps changes a site or version row, and
\* it ends failed with the error 'Unknown job type: <type>'.
C2_Dispatch == []C2_State /\ [][C2_Step]_vars

\* a job of an unknown type has ended and a publish job is inside handlePublish
C2_Witness ==
    \E j, k \in JobIds :
        /\ job[j].type = "export" /\ job[j].pc = "done"
        /\ job[k].type = "publish" /\ job[k].pc = "pub_wp"

C3_State ==
    \A j \in JobIds :
        /\ job[j].calls <= 1
        /\ job[j].pc = "done" /\ job[j].caught # NULL =>
              job[j].status = "failed" /\ job[j].thrown = job[j].caught
        /\ job[j].pc = "done" /\ job[j].caught = NULL => job[j].thrown = NULL

C3_Step ==
    \A j \in JobIds :
        /\ job[j].pc = "catch" /\ Steps(j) => job'[j].pc = "done"
        /\ job[j].pc = "done" => job'[j] = job[j]

\* C3: within one delivery processJob calls a handler at most once; when a
\* step throws, the catch clause marks the job failed and rethrows that same
\* error; the step after the catch clause is the end of processJob, and a
\* job that has ended is never touched again (not re-run, not re-enqueued).
C3_NoRetry == []C3_State /\ [][C3_Step]_vars

\* a handler was called, threw, and the error reached the queue library
C3_Witness ==
    \E j \in JobIds :
        /\ job[j].pc = "done" /\ job[j].calls = 1
        /\ job[j].thrown = "Unique constraint failed" \/ job[j].thrown = "wp-cli failed"
        /\ job[j].status = "failed"

C4_Order == <<"provisioning", "generating", "draft">>

C4_State ==
    \A j \in JobIds :
        job[j].type = "provision" =>
            /\ job[j].writes = SubSeq(C4_Order, 1, Len(job[j].writes))
            /\ job[j].pc = "done" /\ job[j].status = "completed" => job[j].writes = C4_Order

C4_Step ==
    \A j \in JobIds :
        LET s == job[j].siteId IN
          job[j].type = "provision" /\ Steps(j) /\ s \in SiteIds =>
            \* the update that sets generating stores the three WordPress fields
            /\ site'[s].status = "generating" /\ site[s] # site'[s] =>
                  /\ site'[s].wpSiteId = job[j].wpResult.wpSiteId
                  /\ site'[s].wpSiteId # NoId
                  /\ site'[s].wpAdminUrl = AdminUrl(s)
                  /\ site'[s].wpSiteUrl = SiteUrl(s)
            \* and no other update of the job touches them
            /\ site'[s].status # "generating" =>
                  /\ site'[s].wpSiteId = site[s].wpSiteId
                  /\ site'[s].wpAdminUrl = site[s].wpAdminUrl
                  /\ site'[s].wpSiteUrl = site[s].wpSiteUrl
            \* the job reaches completed
            /\ job'[j].status = "completed" =>
                  /\ site'[s].status = "draft"
                  /\ site'[s].currentVersionId \in 1..Len(versions')
                  /\ versions'[site'[s].currentVersionId].createdBy = j
                  /\ versions'[site'[s].currentVersionId].siteId = s

\* C4: the site updates of a provision job are provisioning, generating and
\* draft, in that order, and a completed provision job has made all three;
\* the update that sets generating is the one that stores wpSiteId,
\* wpAdminUrl and wpSiteUrl; when the job reaches completed the site has
\* status draft and currentVersionId is a version that this job created.
C4_ProvisionGenerates == []C4_State /\ [][C4_Step]_vars

\* a provision job has completed
C4_Witness ==
    \E j \in JobIds :
        /\ job[j].type = "provision" /\ job[j].pc = "done" /\ job[j].status = "completed"
        /\ site[job[j].siteId].status = "draft"

(***************************************************************************)
(* WordPressService: the content compilers.                                *)
(*                                                                         *)
(* A string is a sequence of lexemes.  <<"chr", c>> is text, <<"html", h>> *)
(* a piece of markup a template writes, <<"nl", "">> a line break,         *)
(* <<"open", name, attrs>> the block comment <!-- name attrs --> and       *)
(* <<"close", name>> the block comment <!-- /name -->, <<"stag", n>> and   *)
(* <<"etag", n>> the tags <n ...> and </n>.  A string of a page may hold   *)
(* any of them: it is data the compilers are given.  The accent colour is  *)
(* a colour code, a string without markup.                                 *)
(***************************************************************************)
Chr(c) == <<"chr", c>>
Html(h) == <<"html", h>>
Nl == <<"nl", "">>
Open(name, attrs) == <<"open", name, attrs>>
Close(name) == <<"close", name>>
STag(n) == <<"stag", n>>
ETag(n) == <<"etag", n>>

\* items of the list map, one after the other with sep between them
RECURSIVE Join(_, _)
Join(parts, sep) ==
    IF parts = << >> THEN << >>
    ELSE IF Len(parts) = 1 THEN parts[1]
    ELSE parts[1] \o sep \o Join(Tail(parts), sep)

\* escapeHtml on one lexeme: & < > " ' become entities, so a comment or a
\* tag in the text becomes text
EscapeLexeme(t) ==
    CASE t[1] = "open" -> Chr("&lt;!-- " \o t[2] \o " --&gt;")
      [] t[1] = "close" -> Chr("&lt;!-- /" \o t[2] \o " --&gt;")
      [] t[1] = "stag" -> Chr("&lt;" \o t[2] \o "&gt;")
      [] t[1] = "etag" -> Chr("&lt;/" \o t[2] \o "&gt;")
      [] t = Chr("&") -> Chr("&amp;")
      [] t = Chr("<") -> Chr("&lt;")
      [] t = Chr(">") -> Chr("&gt;")
      [] t = Chr("\"") -> Chr("&quot;")
      [] t = Chr("'") -> Chr("&#039;")
      [] OTHER -> t

escapeHtml(str) == [i \in 1..Len(str) |-> EscapeLexeme(str[i])]

getTextTag(variant) ==
    CASE variant = "h1" -> "h1"
      [] variant = "h2" -> "h2"
      [] variant = "h3" -> "h3"
      [] variant = "small" -> "small"
      [] OTHER -> "p"

\* props.variant === 'primary' ? accentColor : 'transparent'
BgColor(props, accentColor) ==
    IF props.variant = "primary" THEN accentColor ELSE "transparent"

\* props.variant === 'primary' ? '#ffffff' : accentColor
TextColor(props, accentColor) ==
    IF props.variant = "primary" THEN "#ffffff" ELSE accentColor

HtmlListItem(item) ==
    <<Html("<li><strong>")>> \o escapeHtml(item.title) \o <<Html("</strong><p>")>>
        \o escapeHtml(item.description) \o <<Html("</p></li>")>>

compileBlockToHtml(block, accentColor) ==
    CASE block.type = "text" ->
            <<Html("<" \o getTextTag(block.props.variant) \o ">")>>
                \o escapeHtml(block.props.content)
                \o <<Html("</" \o getTextTag(block.props.variant) \o ">")>>
      [] block.type = "image" ->
            <<Html("<figure class=wp-block-image><img src=")>> \o block.props.src
                \o <<Html(" alt=")>> \o escapeHtml(block.props.alt)
                \o <<Html(" /></figure>")>>
      [] block.type = "button" ->
            <<Html("<div class=wp-block-button><a class=wp-block-button__link href=")>>
                \o block.props.href
                \o <<Html(" style=background-color:" \o BgColor(block.props, accentColor)
                          \o ";color:" \o TextColor(block.props, accentColor) \o ">")>>
                \o escapeHtml(block.props.text)
                \o <<Html("</a></div>")>>
      [] block.type = "list" ->
            <<Html("<ul class=wp-block-list layout-" \o block.props.layout \o ">")>>
                \o Join([i \in 1..Len(block.props.items) |->
                            HtmlListItem(block.props.items[i])], << >>)
                \o <<Html("</ul>")>>
      [] OTHER -> << >>

GutenbergListItem(item) ==
    <<Html("<li><strong>")>> \o escapeHtml(item.title) \o <<Html("</strong> - ")>>
        \o escapeHtml(item.description) \o <<Html("</li>")>>

\* the inner switch (props.variant) of the text case
GutenbergText(props) ==
    CASE props.variant = "h1" ->
            <<Open("wp:heading", "level:1"), Nl, Html("<h1 class=wp-block-heading>")>>
                \o escapeHtml(props.content) \o <<Html("</h1>"), Nl, Close("wp:heading")>>
      [] props.variant = "h2" ->
            <<Open("wp:heading", ""), Nl, Html("<h2 class=wp-block-heading>")>>
                \o escapeHtml(props.content) \o <<Html("</h2>"), Nl, Close("wp:heading")>>
      [] props.variant = "h3" ->
            <<Open("wp:heading", "level:3"), Nl, Html("<h3 class=wp-block-heading>")>>
                \o escapeHtml(props.content) \o <<Html("</h3>"), Nl, Close("wp:heading")>>
      [] props.variant = "small" ->
            <<Open("wp:paragraph", "fontSize:small"), Nl, Html("<p class=has-small-font-size>")>>
                \o escapeHtml(props.content) \o <<Html("</p>"), Nl, Close("wp:paragraph")>>
      [] OTHER ->
            <<Open("wp:paragraph", ""), Nl, Html("<p>")>>
                \o escapeHtml(props.content) \o <<Html("</p>"), Nl, Close("wp:paragraph")>>

\* a compiler whose switch has no case for list
compileBlockToGutenbergNoList(block, accentColor) ==
    CASE block.type = "text" -> GutenbergText(block.props)
      [] block.type = "image" ->
            <<Open("wp:image", ""), Nl, Html("<figure class=wp-block-image><img src=")>>
                \o block.props.src \o <<Html(" alt=")>> \o escapeHtml(block.props.alt)
                \o <<Html("/></figure>"), Nl, Close("wp:image")>>
      [] OTHER -> << >>

compileBlockToGutenberg(block, accentColor) ==
    CASE block.type = "text" -> GutenbergText(block.props)
      [] block.type = "image" ->
            <<Open("wp:image", ""), Nl, Html("<figure class=wp-block-image><img src=")>>
                \o block.props.src \o <<Html(" alt=")>> \o escapeHtml(block.props.alt)
                \o <<Html("/></figure>"), Nl, Close("wp:image")>>
      [] block.type = "button" ->
            <<Open("wp:buttons", ""), Nl, Html("<div class=wp-block-buttons>"),
              Open("wp:button", "backgroundColor:" \o BgColor(block.props, accentColor)), Nl,
              Html("<div class=wp-block-button><a class=wp-block-button__link href=")>>
                \o block.props.href \o <<Html(">")>> \o escapeHtml(block.props.text)
                \o <<Html("</a></div>"), Nl, Close("wp:button"), Html("</div>"), Nl,
                     Close("wp:buttons")>>
      [] block.type = "list" ->
            <<Open("wp:list", ""), Nl, Html("<ul class=wp-block-list>")>>
                \o Join([i \in 1..Len(block.props.items) |->
                            GutenbergListItem(block.props.items[i])], << >>)
                \o <<Html("</ul>"), Nl, Close("wp:list")>>
      [] OTHER -> << >>

(***************************************************************************)
(* Blocks handed to the block compilers.                                   *)
(***************************************************************************)
\* longest list a list block holds
MaxItems == 2

\* strings of a page: empty, plain, with characters escapeHtml replaces, and
\* with a block comment in it
PageStrings ==
    { << >>,
      <<Chr("a")>>,
      <<Chr("<"), Chr("b"), Chr("&"), Chr("'")>>,
      <<Chr("\""), Chr(">"), Open("wp:html", "")>> }

AccentColors == {"#2563EB", "#DC2626"}

TextVariants == {"h1", "h2", "h3", "body", "small"}

ListItems ==
    { [title |-> <<Chr("a")>>, description |-> << >>],
      [title |-> <<Chr("<"), Chr("b"), Chr("&"), Chr("'")>>,
       description |-> <<Chr("\""), Chr(">"), Open("wp:html", "")>>] }

\* sequences over S of length at most n
SeqsUpTo(S, n) == UNION {[1..k -> S] : k \in 0..n}

\* type BlockType, and two types outside of it
BlockTypes == {"text", "image", "button", "list"}
OtherBlockTypes == {"video", "html"}

BlockInputs ==
    {[type |-> "text", props |-> [content |-> c, variant |-> v]] :
        c \in PageStrings, v \in TextVariants}
    \cup {[type |-> "image", props |-> [src |-> a, alt |-> b]] :
            a \in PageStrings, b \in PageStrings}
    \cup {[type |-> "button", props |-> [text |-> a, href |-> b, variant |-> v]] :
            a \in PageStrings, b \in PageStrings, v \in {"primary", "secondary"}}
    \cup {[type |-> "list", props |-> [items |-> it, layout |-> l]] :
            it \in SeqsUpTo(ListItems, MaxItems), l \in {"grid", "list"}}
    \cup {[type |-> t, props |-> [content |-> <<Chr("a")>>]] : t \in OtherBlockTypes}

BlkInit ==
    \E b \in BlockInputs, c \in AccentColors :
        blk = [pc |-> "input", block |-> b, accentColor |-> c,
               html |-> << >>, gutenberg |-> << >>]

\* both block compilers applied to the block
CompileBlock ==
    /\ blk.pc = "input"
    /\ blk' = [blk EXCEPT !.pc = "compiled",
                          !.html = compileBlockToHtml(blk.block, blk.accentColor),
                          !.gutenberg = compileBlockToGutenberg(blk.block, blk.accentColor)]
    /\ UNCHANGED <<jobVars, ai, pg, bill, auth, wp>>

InitBlock == BlkInit /\ JobRest /\ AiRest /\ PgRest /\ BillRest /\ AuthRest /\ WpRest

NextBlock == CompileBlock

SpecBlock == InitBlock /\ [][NextBlock]_vars

\* C6: each of the two block compilers returns markup that is not the empty
\* string exactly for the block types text, image, button and list, and the
\* empty string for any other type, so the two agree on the supported types.
C6_ClosedBlockVariants ==
    blk.pc = "compiled" =>
        /\ blk.html # << >> <=> blk.block.type \in {"text", "image", "button", "list"}
        /\ blk.gutenberg # << >> <=> blk.block.type \in {"text", "image", "button", "list"}
        /\ blk.html = << >> <=> blk.gutenberg = << >>

\* a list block without items has been compiled to markup by both compilers
C6_Witness ==
    /\ blk.pc = "compiled"
    /\ blk.block.type = "list" /\ blk.block.props.items = << >>
    /\ blk.html # << >> /\ blk.gutenberg # << >>

(***************************************************************************)
(* Sections and pages.                                                     *)
(***************************************************************************)
compileSectionToHtml(section, accentColor) ==
    <<STag("section class=wp-block-group section-" \o section.type
            \o " data-section-id=" \o section.id)>>
        \o Join([i \in 1..Len(section.blocks) |->
                    compileBlockToHtml(section.blocks[i], accentColor)], <<Nl>>)
        \o <<ETag("section")>>

compileSectionToGutenberg(section, accentColor) ==
    <<Open("wp:group", "className:section-" \o section.type), Nl,
      Html("<div class=wp-block-group section-" \o section.type \o ">")>>
        \o Join([i \in 1..Len(section.blocks) |->
                    compileBlockToGutenberg(section.blocks[i], accentColor)], <<Nl>>)
        \o <<Html("</div>"), Nl, Close("wp:group")>>

compilePageToHtml(page, accentColor) ==
    Join([i \in 1..Len(page.sections) |->
            compileSectionToHtml(page.sections[i], accentColor)], <<Nl>>)

compilePageToGutenberg(page, accentColor) ==
    Join([i \in 1..Len(page.sections) |->
            compileSectionToGutenberg(page.sections[i], accentColor)], <<Nl, Nl>>)

\* most sections of a page, most blocks of a section
MaxSections == 2
MaxBlocks == 2

\* blocks of the pages: the kinds of block generateSiteContent builds, with
\* an image address as a site owner may type it in, and a block of a type
\* the compilers do not know
PageBlocks ==
    { [type |-> "text", props |-> [content |-> <<Chr("a"), Chr("&")>>, variant |-> "h1"]],
      [type |-> "image",
       props |-> [src |-> <<Chr("\""), Chr(">"), Open("wp:html", "")>>, alt |-> <<Chr("a")>>]],
      [type |-> "button",
       props |-> [text |-> <<Chr("a")>>, href |-> <<Chr("#contact")>>, variant |-> "primary"]],
      [type |-> "video", props |-> [content |-> <<Chr("a")>>]] }

PageSections ==
    {[id |-> "id", type |-> t, variant |-> 1, blocks |-> b] :
        t \in {"hero", "about"}, b \in SeqsUpTo(PageBlocks, MaxBlocks)}

PageInputs ==
    {[title |-> "Home", slug |-> "home", sections |-> ss] :
        ss \in SeqsUpTo(PageSections, MaxSections)}

PgInit ==
    \E p \in PageInputs :
        pg = [pc |-> "input", page |-> p, accentColor |-> "#2563EB",
              html |-> << >>, gutenberg |-> << >>]

\* both page compilers applied to the page, as publishVersion does
CompilePage ==
    /\ pg.pc = "input"
    /\ pg' = [pg EXCEPT !.pc = "compiled",
                        !.html = compilePageToHtml(pg.page, pg.accentColor),
                        !.gutenberg = compilePageToGutenberg(pg.page, pg.accentColor)]
    /\ UNCHANGED <<jobVars, ai, blk, bill, auth, wp>>

InitPage == PgInit /\ JobRest /\ AiRest /\ BlkRest /\ BillRest /\ AuthRest /\ WpRest

NextPage == CompilePage

SpecPage == InitPage /\ [][NextPage]_vars

\* the lexemes of a string that are of one of the kinds
RECURSIVE Only(_, _)
Only(str, kinds) ==
    IF str = << >> THEN << >>
    ELSE IF Head(str)[1] \in kinds THEN <<Head(str)>> \o Only(Tail(str), kinds)
    ELSE Only(Tail(str), kinds)

\* every closing comment closes the innermost open block, and none stays open
RECURSIVE BalancedFrom(_, _)
BalancedFrom(comments, stack) ==
    IF comments = << >> THEN stack = << >>
    ELSE IF Head(comments)[1] = "open"
         THEN BalancedFrom(Tail(comments), <<Head(comments)[2]>> \o stack)
         ELSE /\ stack # << >>
              /\ Head(stack) = Head(comments)[2]
              /\ BalancedFrom(Tail(comments), Tail(stack))

Balanced(str) == BalancedFrom(Only(str, {"open", "close"}), << >>)

\* the block a supported block type is written as
C7_BlockName(block) ==
    CASE block.type = "text" ->
            IF block.props.variant \in {"h1", "h2", "h3"} THEN <<"wp:heading">>
            ELSE <<"wp:paragraph">>
      [] block.type = "image" -> <<"wp:image">>
      [] block.type = "button" -> <<"wp:buttons", "wp:button">>
      [] block.type = "list" -> <<"wp:list">>
      [] OTHER -> << >>

\* the names of the opening comments the page structure calls for: per
\* section, in order, wp:group and then the blocks of the section in order
RECURSIVE C7_SectionOpens(_)
C7_SectionOpens(blocks) ==
    IF blocks = << >> THEN << >>
    ELSE C7_BlockName(Head(blocks)) \o C7_SectionOpens(Tail(blocks))

RECURSIVE C7_PageOpens(_)
C7_PageOpens(sections) ==
    IF sections = << >> THEN << >>
    ELSE <<"wp:group">> \o C7_SectionOpens(Head(sections).blocks)
            \o C7_PageOpens(Tail(sections))

\* names of the lexemes of a string
Names(str) == [i \in 1..Len(str) |-> str[i][2]]

\* C7: compilePageToGutenberg emits one wp:group wrapper per section, in
\* section order, each holding the blocks of its section in block order, the
\* block comments of the output are balanced and properly nested, and
\* compilePageToHtml emits one section element per section, in section order.
C7_StructurePreserving ==
    pg.pc = "compiled" =>
        /\ Names(Only(pg.gutenberg, {"open"})) = C7_PageOpens(pg.page.sections)
        /\ Balanced(pg.gutenberg)
        /\ Names(Only(pg.html, {"stag"})) =
              [i \in 1..Len(pg.page.sections) |->
                  "section class=wp-block-group section-" \o pg.page.sections[i].type
                      \o " data-section-id=" \o pg.page.sections[i].id]
        /\ Len(Only(pg.html, {"etag"})) = Len(pg.page.sections)

(***************************************************************************)
(* AiService.                                                              *)
(*                                                                         *)
(* A value that JSON.parse returns is a record with its type in t.         *)
(***************************************************************************)
Undefined == [t |-> "undefined"]
JsonNull == [t |-> "null"]
Str(x) == [t |-> "string", v |-> x]
Num(n) == [t |-> "number", n |-> n]
Arr(items) == [t |-> "array", items |-> items]
Obj(fields) == [t |-> "object", fields |-> fields]

\* data.field: reading a property of null or undefined throws (see Reads)
Get(data, field) ==
    IF data.t = "object" /\ field \in DOMAIN data.fields THEN data.fields[field]
    ELSE Undefined

\* data.field can be evaluated
Reads(data) == data.t \notin {"null", "undefined"}

\* value.map(item => item.a ...) can be evaluated: value is an array whose
\* elements have properties
Maps(value) ==
    /\ value.t = "array"
    /\ \A i \in 1..Len(value.items) : Reads(value.items[i])

\* settings.primaryCta === 'call' ? a : settings.primaryCta === 'book' ? b : c
ByCta(settings, a, b, c) ==
    IF settings.primaryCta = "call" THEN a
    ELSE IF settings.primaryCta = "book" THEN b ELSE c

TextBlock(content, variant) ==
    [type |-> "text", props |-> [content |-> content, variant |-> variant]]

ButtonBlock(text, href) ==
    [type |-> "button", props |-> [text |-> text, href |-> href, variant |-> "primary"]]

ImageBlock(src, alt) == [type |-> "image", props |-> [src |-> src, alt |-> alt]]

ListBlock(items, layout) == [type |-> "list", props |-> [items |-> items, layout |-> layout]]

Section(type, blocks) == [type |-> type, variant |-> 1, blocks |-> blocks]

\* new Date().getFullYear(), as text
FullYear == "2026"

\* String.prototype.toLowerCase on the industries of AiSettings
toLowerCase(s) ==
    CASE s = "Plumbing" -> "plumbing"
      [] s = "HVAC" -> "hvac"
      [] OTHER -> s

\* the footer section every page ends with
Footer(settings) ==
    Section("footer",
            <<TextBlock(Str("(c) " \o FullYear \o " " \o settings.businessName
                            \o ". All rights reserved."),
                        "small")>>)

\* buildHomePage throws a TypeError
BuildHomePageThrows(data) ==
    \/ ~Reads(data)
    \/ ~Maps(Get(data, "services"))
    \/ ~Maps(Get(data, "testimonials"))

buildHomePage(settings, data) ==
    LET ctaText == ByCta(settings, "Call Us Today", "Book Now", "Get a Quote")
        services == Get(data, "services").items
        testimonials == Get(data, "testimonials").items
    IN [title |-> "Home", slug |-> "home",
        sections |->
          << Section("hero",
                <<TextBlock(Get(data, "heroHeadline"), "h1"),
                  TextBlock(Get(data, "heroSubheadline"), "body"),
                  ButtonBlock(Str(ctaText), Str("#contact")),
                  ImageBlock(Str("/placeholder-hero.jpg"), Str("Hero image"))>>),
             Section("about",
                <<TextBlock(Get(data, "aboutTitle"), "h2"),
                  TextBlock(Get(data, "aboutText"), "body"),
                  ImageBlock(Str("/placeholder-about.jpg"), Str("About us"))>>),
             Section("services",
                <<TextBlock(Str("Our Services"), "h2"),
                  ListBlock([i \in 1..Len(services) |->
                                [title |-> Get(services[i], "title"),
                                 description |-> Get(services[i], "description")]],
                            "grid")>>),
             Section("testimonials",
                <<TextBlock(Str("What Our Clients Say"), "h2"),
                  ListBlock([i \in 1..Len(testimonials) |->
                                [title |-> Get(testimonials[i], "name"),
                                 description |-> Get(testimonials[i], "quote")]],
                            "list")>>),
             Section("contact",
                <<TextBlock(Str("Get In Touch"), "h2"),
                  TextBlock(Str("Email: " \o settings.contactEmail), "body"),
                  TextBlock(Str("Phone: " \o settings.contactPhone), "body"),
                  ButtonBlock(Str(ctaText), Str("tel:" \o settings.contactPhone))>>),
             Footer(settings) >>]

createFallbackHomePage(settings) ==
    buildHomePage(settings,
        Obj([heroHeadline |-> Str("Welcome to " \o settings.businessName),
             heroSubheadline |->
                Str("Your trusted partner in " \o toLowerCase(settings.industry)
                    \o ". We deliver excellence with every interaction."),
             aboutTitle |-> Str("About Us"),
             aboutText |->
                Str(settings.businessName
                    \o " has been proudly serving our community with top-quality "
                    \o toLowerCase(settings.industry) \o " services."),
             services |->
                Arr(<<Obj([title |-> Str("Professional Service"),
                           description |-> Str("Expert solutions tailored to your needs")]),
                      Obj([title |-> Str("Quality Guaranteed"),
                           description |-> Str("We stand behind our work with confidence")]),
                      Obj([title |-> Str("Fast Turnaround"),
                           description |-> Str("Quick and efficient service delivery")])>>),
             testimonials |->
                Arr(<<Obj([name |-> Str("John D."), quote |-> Str("Exceptional service!")]),
                      Obj([name |-> Str("Sarah M."), quote |-> Str("Highly recommended!")])>>)]))

\* the contact page of generateContactPage and of generateFallbackContent
ContactPage(settings) ==
    [title |-> "Contact", slug |-> "contact",
     sections |->
        << Section("contact",
              <<TextBlock(Str("Contact Us"), "h1"),
                TextBlock(Str("We'd love to hear from you. Reach out to "
                              \o settings.businessName \o " today."), "body"),
                TextBlock(Str("Email: " \o settings.contactEmail), "body"),
                TextBlock(Str("Phone: " \o settings.contactPhone), "body"),
                ButtonBlock(Str(ByCta(settings, "Call Now", "Book Appointment", "Request Quote")),
                            Str("tel:" \o settings.contactPhone))>>),
           Footer(settings) >>]

generateFallbackContent(settings) ==
    [threw |-> FALSE,
     pages |-> <<createFallbackHomePage(settings), ContactPage(settings)>>,
     settings |-> settings]

\* what a function hands back when it throws
Thrown == [threw |-> TRUE]

\* generateHomePage once the completion request has ended: api.threw when the
\* request failed, else api.parses tells whether JSON.parse accepts the content
\* of the first choice ('' when there is none) and api.value is what it returns
generateHomePage(settings, api) ==
    IF api.threw THEN Thrown
    ELSE IF ~api.parses THEN [threw |-> FALSE, page |-> createFallbackHomePage(settings)]
    ELSE IF BuildHomePageThrows(api.value) THEN Thrown
    ELSE [threw |-> FALSE, page |-> buildHomePage(settings, api.value)]

\* generateSiteContent without its try/catch
generateSiteContentUncaught(settings, api) ==
    LET home == generateHomePage(settings, api) IN
      IF home.threw THEN Thrown
      ELSE [threw |-> FALSE, pages |-> <<home.page, ContactPage(settings)>>,
            settings |-> settings]

\* the try/catch of generateSiteContent, with an OpenAI client
generateSiteContent(settings, api) ==
    LET home == generateHomePage(settings, api) IN
      IF home.threw THEN generateFallbackContent(settings)
      ELSE [threw |-> FALSE, pages |-> <<home.page, ContactPage(settings)>>,
            settings |-> settings]

\* generateSectionVariations's answer when there is no client or the try block
\* throws: the section and two copies of it
ThreeCopies(section) == <<section, section, section>>

\* the block of one variation: headline into h1/h2 texts, subtext into body texts
VariationBlock(block, v) ==
    IF block.type = "text" /\ block.props.variant \in {"h1", "h2"}
      THEN [block EXCEPT !.props.content = Get(v, "headline")]
    ELSE IF block.type = "text" /\ block.props.variant = "body"
      THEN [block EXCEPT !.props.content = Get(v, "subtext")]
    ELSE block

\* variations.map(...) of generateSectionVariations
MapVariations(section, variations) ==
    [i \in 1..Len(variations.items) |->
        [section EXCEPT !.variant = i,
                        !.blocks = [b \in 1..Len(section.blocks) |->
                                       VariationBlock(section.blocks[b],
                                                      variations.items[i])]]]

\* the try block of generateSectionVariations once the request has ended
generateSectionVariations(section, api) ==
    IF api.threw \/ ~api.parses \/ ~Maps(api.value) THEN ThreeCopies(section)
    ELSE MapVariations(section, api.value)

(***************************************************************************)
(* One caller of the AiService: the request to the completion API is the   *)
(* only await that leaves the process, so a call is a step up to the       *)
(* request and a step from its outcome to the return.                      *)
(***************************************************************************)
MaxVariations == 4

None == [none |-> TRUE]

AiSettings ==
    [businessName : {"Acme"}, industry : {"Plumbing", "HVAC"},
     stylePreset : {"modern"}, primaryCta : {"call", "book", "quote"},
     contactEmail : {"hi@acme.test"}, contactPhone : {"555-0100"}]

AiSections ==
    { Section("hero", <<TextBlock(Str("Old headline"), "h1"),
                        TextBlock(Str("Old subtext"), "body"),
                        ButtonBlock(Str("Call"), Str("#contact"))>>),
      [Section("about", <<TextBlock(Str("Old title"), "h2"),
                          TextBlock(Str("Old note"), "small"),
                          ImageBlock(Str("/a.jpg"), Str("About"))>>)
         EXCEPT !.variant = 3] }

Service == Obj([title |-> Str("Repairs"), description |-> Str("We fix it")])
Testimonial == Obj([name |-> Str("Ann"), quote |-> Str("Great")])
Variation == Obj([headline |-> Str("New headline"), subtext |-> Str("New subtext")])

\* values JSON.parse can return for the content of a completion
JsonValues ==
    { JsonNull, Num(3), Str("sorry"),
      Obj([heroHeadline |-> Str("H"), heroSubheadline |-> Str("S"),
           aboutTitle |-> Str("T"), aboutText |-> Str("A"),
           services |-> Arr(<<Service>>), testimonials |-> Arr(<<Testimonial>>)]),
      Obj([services |-> Arr(<<Service>>), testimonials |-> Arr(<<>>)]),
      Obj([heroHeadline |-> Str("H"), testimonials |-> Arr(<<Testimonial>>)]),
      Obj([heroHeadline |-> Str("H"), services |-> Str("none"),
           testimonials |-> Arr(<<Testimonial>>)]),
      Obj([heroHeadline |-> Str("H"), services |-> Arr(<<Service>>),
           testimonials |-> Arr(<<JsonNull>>)]),
      Arr(<<JsonNull>>), Arr(<<Variation, Num(3)>>),
      Arr(<<Obj([headline |-> Str("Only headline")])>>) }
    \cup { Arr([i \in 1..n |-> Variation]) : n \in 0..MaxVariations }

\* how the completion request ends
ApiOutcomes ==
    { [threw |-> TRUE, parses |-> FALSE, value |-> Undefined],
      [threw |-> FALSE, parses |-> FALSE, value |-> Undefined] }
    \cup { [threw |-> FALSE, parses |-> TRUE, value |-> v] : v \in JsonValues }

NoApi == [threw |-> FALSE, parses |-> FALSE, value |-> Undefined]

\* AiService's constructor: a client only when OPENAI_API_KEY is set
AiInit ==
    \E key \in BOOLEAN :
      ai = [openai |-> key, pc |-> "idle", op |-> "none", settings |-> None,
            section |-> None, calls |-> 0, api |-> NoApi, result |-> None]

GenerateSiteContentCall(settings) ==
    /\ ai.pc \in {"idle", "done"}
    /\ IF ~ai.openai
         THEN ai' = [ai EXCEPT !.pc = "done", !.op = "content", !.settings = settings,
                               !.section = None, !.calls = 0, !.api = NoApi,
                               !.result = generateFallbackContent(settings)]
         ELSE ai' = [ai EXCEPT !.pc = "awaiting", !.op = "content", !.settings = settings,
                               !.section = None, !.calls = 1, !.api = NoApi,
                               !.result = None]
    /\ UNCHANGED <<jobVars, blk, pg, bill, auth, wp>>

GenerateSiteContentReturn(api) ==
    /\ ai.pc = "awaiting"
    /\ ai.op = "content"
    /\ ai' = [ai EXCEPT !.pc = "done", !.api = api,
                        !.result = generateSiteContent(ai.settings, api)]
    /\ UNCHANGED <<jobVars, blk, pg, bill, auth, wp>>

GenerateSectionVariationsCall(section, settings) ==
    /\ ai.pc \in {"idle", "done"}
    /\ IF ~ai.openai
         THEN ai' = [ai EXCEPT !.pc = "done", !.op = "variations", !.settings = settings,
                               !.section = section, !.calls = 0, !.api = NoApi,
                               !.result = [threw |-> FALSE,
                                           sections |-> ThreeCopies(section)]]
         ELSE ai' = [ai EXCEPT !.pc = "awaiting", !.op = "variations",
                               !.settings = settings, !.section = section,
                               !.calls = 1, !.api = NoApi, !.result = None]
    /\ UNCHANGED <<jobVars, blk, pg, bill, auth, wp>>

GenerateSectionVariationsReturn(api) ==
    /\ ai.pc = "awaiting"
    /\ ai.op = "variations"
    /\ ai' = [ai EXCEPT !.pc = "done", !.api = api,
                        !.result = [threw |-> FALSE,
                                    sections |-> generateSectionVariations(ai.section, api)]]
    /\ UNCHANGED <<jobVars, blk, pg, bill, auth, wp>>

InitAi == AiInit /\ JobRest /\ BlkRest /\ PgRest /\ BillRest /\ AuthRest /\ WpRest

NextAi ==
    \/ \E settings \in AiSettings : GenerateSiteContentCall(settings)
    \/ \E api \in ApiOutcomes : GenerateSiteContentReturn(api)
    \/ \E section \in AiSections, settings \in AiSettings :
         GenerateSectionVariationsCall(section, settings)
    \/ \E api \in ApiOutcomes : GenerateSectionVariationsReturn(api)

SpecAi == InitAi /\ [][NextAi]_vars

AiDone(op) == ai # None /\ ai.pc = "done" /\ ai.op = op

\* C5: for well-formed settings generateSiteContent never throws and returns
\* exactly two pages, slug home then slug contact, with the settings it was
\* given, whether there is no OpenAI key (then no API call is made), the API
\* call throws, the response is not valid JSON or the parsed JSON lacks
\* expected fields.
C5_FallbackContent ==
    AiDone("content") =>
      /\ ~ai.result.threw
      /\ Len(ai.result.pages) = 2
      /\ ai.result.pages[1].slug = "home"
      /\ ai.result.pages[2].slug = "contact"
      /\ ai.result.settings = ai.settings
      /\ ~ai.openai => ai.calls = 0
      /\ (~ai.openai \/ ai.api.threw \/ ~ai.api.parses \/ BuildHomePageThrows(ai.api.value))
           => ai.result = generateFallbackContent(ai.settings)

\* the parsed JSON lacked the services array and the static content came back
C5_Witness ==
    /\ AiDone("content")
    /\ ai.openai
    /\ ai.api.parses
    /\ Reads(ai.api.value)
    /\ Get(ai.api.value, "services") = Undefined
    /\ ai.result = generateFallbackContent(ai.settings)

\* C9: in every path (no OpenAI key, API failure, unparseable response,
\* successful response of any shape) generateSectionVariations returns exactly
\* 3 sections, each with a variant in {1,2,3} and the type of the input section.
C9_ThreeVariations ==
    AiDone("variations") =>
      /\ Len(ai.result.sections) = 3
      /\ \A i \in 1..Len(ai.result.sections) :
           /\ ai.result.sections[i].variant \in {1, 2, 3}
           /\ ai.result.sections[i].type = ai.section.type

(***************************************************************************)
(* BillingService.                                                         *)
(*                                                                         *)
(* bill.subs is the stripe_subscriptions table keyed by its unique         *)
(* stripeSubscriptionId; bill.last is the answer of the latest call.       *)
(***************************************************************************)
UserIds == {"u1", "u2"}
SubIds == {"sub_1", "sub_2"}
SubscriptionStatuses == {"active", "canceled", "past_due", "trialing", "incomplete"}
StripeStatuses == SubscriptionStatuses \cup {"unpaid"}

NoRow == [exists |-> FALSE, userId |-> "none", status |-> "none"]
SubRow(userId, status) == [exists |-> TRUE, userId |-> userId, status |-> status]

mapStripeStatus(status) ==
    CASE status = "active" -> "active"
      [] status = "canceled" -> "canceled"
      [] status = "past_due" -> "past_due"
      [] status = "trialing" -> "trialing"
      [] OTHER -> "incomplete"

\* prisma.stripeSubscription.findFirst({ where: { userId, status: active } }):
\* the rows it may return
FindFirstActive(subs, userId) ==
    { id \in SubIds : /\ subs[id].exists
                      /\ subs[id].userId = userId
                      /\ subs[id].status = "active" }

\* hasActiveSubscription with findFirst({ where: { status: active } }), the
\* user left out
hasActiveSubscriptionOfAnyone(userId) ==
    IF ~bill.stripe THEN TRUE
    ELSE { id \in SubIds : bill.subs[id].exists /\ bill.subs[id].status = "active" } # {}

hasActiveSubscription(userId) ==
    IF ~bill.stripe THEN TRUE
    ELSE FindFirstActive(bill.subs, userId) # {}

HasActiveSubscription(userId) ==
    /\ bill # None
    /\ bill' = [bill EXCEPT !.last = [op |-> "hasActiveSubscription", userId |-> userId,
                                      answer |-> hasActiveSubscription(userId),
                                      outcome |-> "ok"]]
    /\ UNCHANGED <<jobVars, ai, blk, pg, auth, wp>>

\* the events Stripe posts: the session or subscription object of the event,
\* and for a checkout the status stripe.subscriptions.retrieve answers
\* ("error" when the retrieval fails)
CheckoutEvents ==
    [type : {"checkout.session.completed"}, userId : UserIds \cup {"none"},
     subscription : SubIds \cup {"none"}, customer : BOOLEAN,
     status : StripeStatuses \cup {"error"}]

SubscriptionEvents ==
    [type : {"customer.subscription.created", "customer.subscription.updated",
             "customer.subscription.deleted", "invoice.paid"},
     userId : {"none"}, subscription : SubIds, customer : {TRUE},
     status : StripeStatuses]

WebhookEvents == CheckoutEvents \cup SubscriptionEvents

\* the table after the handler and how the handler ended
Handled(subs, outcome) == [subs |-> subs, outcome |-> outcome]

handleCheckoutCompleted(subs, session) ==
    IF session.userId = "none" THEN Handled(subs, "ok")
    ELSE IF session.subscription = "none" \/ ~session.customer THEN Handled(subs, "ok")
    ELSE IF session.status = "error" THEN Handled(subs, "error")
    ELSE IF subs[session.subscription].exists
      THEN Handled([subs EXCEPT ![session.subscription].status =
                                   mapStripeStatus(session.status)], "ok")
    ELSE Handled([subs EXCEPT ![session.subscription] =
                                 SubRow(session.userId, mapStripeStatus(session.status))],
                 "ok")

handleSubscriptionUpdated(subs, subscription) ==
    IF ~subs[subscription.subscription].exists THEN Handled(subs, "ok")
    ELSE Handled([subs EXCEPT ![subscription.subscription].status =
                                 mapStripeStatus(subscription.status)], "ok")

\* prisma update throws when no row has the stripeSubscriptionId
handleSubscriptionDeleted(subs, subscription) ==
    IF ~subs[subscription.subscription].exists THEN Handled(subs, "error")
    ELSE Handled([subs EXCEPT ![subscription.subscription].status = "canceled"], "ok")

\* handleWebhook reading the event from the payload without constructEvent
handleWebhookUnverified(signatureOk, event) ==
    IF ~bill.stripe THEN Handled(bill.subs, "skipped")
    ELSE IF ~bill.webhookSecret THEN Handled(bill.subs, "bad_request")
    ELSE CASE event.type = "checkout.session.completed" ->
                handleCheckoutCompleted(bill.subs, event)
           [] event.type \in {"customer.subscription.created",
                              "customer.subscription.updated"} ->
                handleSubscriptionUpdated(bill.subs, event)
           [] event.type = "customer.subscription.deleted" ->
                handleSubscriptionDeleted(bill.subs, event)
           [] OTHER -> Handled(bill.subs, "ok")

handleWebhook(signatureOk, event) ==
    IF ~bill.stripe THEN Handled(bill.subs, "skipped")
    ELSE IF ~bill.webhookSecret THEN Handled(bill.subs, "bad_request")
    ELSE IF ~signatureOk THEN Handled(bill.subs, "bad_request")
    ELSE CASE event.type = "checkout.session.completed" ->
                handleCheckoutCompleted(bill.subs, event)
           [] event.type \in {"customer.subscription.created",
                              "customer.subscription.updated"} ->
                handleSubscriptionUpdated(bill.subs, event)
           [] event.type = "customer.subscription.deleted" ->
                handleSubscriptionDeleted(bill.subs, event)
           [] OTHER -> Handled(bill.subs, "ok")

HandleWebhook(signatureOk, event) ==
    /\ bill # None
    /\ LET handled == handleWebhook(signatureOk, event) IN
         bill' = [bill EXCEPT !.subs = handled.subs,
                              !.last = [op |-> "handleWebhook", userId |-> "none",
                                        answer |-> FALSE, outcome |-> handled.outcome]]
    /\ UNCHANGED <<jobVars, ai, blk, pg, auth, wp>>

NoSubs == [id \in SubIds |-> NoRow]

\* the table a new process finds: empty, or rows written while Stripe was
\* configured
SeedSubs ==
    { NoSubs,
      [NoSubs EXCEPT !["sub_1"] = SubRow("u1", "active")],
      [NoSubs EXCEPT !["sub_1"] = SubRow("u2", "canceled")] }

NoCall == [op |-> "none", userId |-> "none", answer |-> FALSE, outcome |-> "none"]

\* BillingService's constructor: a Stripe client only when STRIPE_SECRET_KEY is set
BillInit ==
    \E stripe \in BOOLEAN, webhookSecret \in BOOLEAN, subs \in SeedSubs :
      bill = [stripe |-> stripe, webhookSecret |-> webhookSecret, subs |-> subs,
              last |-> NoCall]

InitBilling == BillInit /\ JobRest /\ AiRest /\ BlkRest /\ PgRest /\ AuthRest /\ WpRest

NextBilling ==
    \/ \E userId \in UserIds : HasActiveSubscription(userId)
    \/ \E signatureOk \in BOOLEAN, event \in WebhookEvents :
         HandleWebhook(signatureOk, event)

SpecBilling == InitBilling /\ [][NextBilling]_vars

Asked(userId) ==
    /\ bill # None
    /\ bill.last.op = "hasActiveSubscription"
    /\ bill.last.userId = userId

\* C8: without a Stripe secret key hasActiveSubscription answers true for every
\* user whatever the subscription table holds; with Stripe configured it
\* answers true exactly when some row of that user has status active, so rows
\* of other users and rows that are canceled, past_due, trialing or incomplete
\* never grant access.
C8_SubscriptionGate ==
    \A userId \in UserIds :
      Asked(userId) =>
        /\ ~bill.stripe => bill.last.answer
        /\ bill.stripe =>
             (bill.last.answer <=>
                \E id \in SubIds : bill.subs[id] = SubRow(userId, "active"))

\* Stripe is configured and the user asked about is refused while another user
\* has an active row and the user's own row is past_due
C8_Witness ==
    \E userId \in UserIds, id, other \in SubIds :
      /\ Asked(userId)
      /\ bill.stripe
      /\ ~bill.last.answer
      /\ bill.subs[id] = SubRow(userId, "past_due")
      /\ bill.subs[other].exists
      /\ bill.subs[other].userId # userId
      /\ bill.subs[other].status = "active"

(***************************************************************************)
(* AuthService.signup.                                                     *)
(*                                                                         *)
(* auth.users is the users table keyed by its unique email, auth.tenants   *)
(* the slugs of the tenants table, auth.memberships the memberships table; *)
(* auth.req holds the requests the server is handling, each at one of the  *)
(* awaits of the handler.                                                  *)
(***************************************************************************)
MaxRequests == 2

Requests == 1..MaxRequests
Emails == {"demo@example.com", "new@example.com"}
Passwords == {"demo1234"}
NoSlug == "undefined"
TenantSlugs == {NoSlug, "", "acme", "nope"}
SignupDtos == [email : Emails, password : Passwords, tenantSlug : TenantSlugs]

\* ids the database gives the rows (cuid): one per unique key
UserId(email) == "user:" \o email
TenantId(slug) == "tenant:" \o slug

\* bcrypt.hash
Hash(password) == "bcrypt:" \o password

\* dto.tenantSlug || 'demo'
SlugOrDemo(tenantSlug) == IF tenantSlug \in {NoSlug, ""} THEN "demo" ELSE tenantSlug

NoUser == [exists |-> FALSE, passwordHash |-> "none", signup |-> FALSE, tenantSlug |-> "none"]

\* a users row; signup and tenantSlug remember the signup request that made it
UserRow(passwordHash, signup, tenantSlug) ==
    [exists |-> TRUE, passwordHash |-> passwordHash, signup |-> signup,
     tenantSlug |-> tenantSlug]

Membership(userId, tenantId, role) ==
    [userId |-> userId, tenantId |-> tenantId, role |-> role]

NoToken == [sub |-> "none", email |-> "none", tenantId |-> "none"]

\* jwtService.sign
Token(email, tenantId) == [sub |-> UserId(email), email |-> email, tenantId |-> tenantId]

NoDto == [email |-> "none", password |-> "none", tenantSlug |-> NoSlug]

IdleRequest ==
    [pc |-> "idle", op |-> "none", dto |-> NoDto, tenant |-> "none", outcome |-> "none",
     token |-> NoToken]

\* the handler of request r ends
Respond(r, outcome, token) ==
    [auth.req EXCEPT ![r].pc = "done", ![r].tenant = "none", ![r].outcome = outcome,
                     ![r].token = token]

\* POST /api/auth/signup to the first check: the email is taken -> Conflict
SignupFindUser(r, dto) ==
    /\ auth # None
    /\ auth.req[r].pc \in {"idle", "done"}
    /\ IF auth.users[dto.email].exists
         THEN auth' = [auth EXCEPT !.req = [Respond(r, "Conflict", NoToken)
                                              EXCEPT ![r].dto = dto, ![r].op = "signup"]]
         ELSE auth' = [auth EXCEPT !.req[r] = [IdleRequest EXCEPT !.pc = "find_tenant",
                                                                  !.op = "signup",
                                                                  !.dto = dto]]
    /\ UNCHANGED <<jobVars, ai, blk, pg, bill, wp>>

\* the tenant of the slug, 'demo' when none is given: unknown -> NotFound
SignupFindTenant(r) ==
    /\ auth # None
    /\ auth.req[r].pc = "find_tenant"
    /\ LET slug == SlugOrDemo(auth.req[r].dto.tenantSlug) IN
         IF slug \notin auth.tenants
           THEN auth' = [auth EXCEPT !.req = Respond(r, "NotFound", NoToken)]
           ELSE auth' = [auth EXCEPT !.req[r].pc = "transaction",
                                     !.req[r].tenant = TenantId(slug)]
    /\ UNCHANGED <<jobVars, ai, blk, pg, bill, wp>>

\* the transaction creating the user only
SignupTransactionUserOnly(r) ==
    /\ auth # None
    /\ auth.req[r].pc = "transaction"
    /\ LET dto == auth.req[r].dto IN
         IF auth.users[dto.email].exists
           THEN auth' = [auth EXCEPT !.req = Respond(r, "error", NoToken)]
           ELSE auth' = [auth EXCEPT
                           !.users[dto.email] = UserRow(Hash(dto.password), TRUE, dto.tenantSlug),
                           !.req = Respond(r, "ok", Token(dto.email, auth.req[r].tenant))]
    /\ UNCHANGED <<jobVars, ai, blk, pg, bill, wp>>

\* the hash, the transaction creating the user and its membership (user.create
\* fails on the unique email when another signup took it meanwhile, and the
\* transaction leaves nothing behind) and the token
SignupTransaction(r) ==
    /\ auth # None
    /\ auth.req[r].pc = "transaction"
    /\ LET dto == auth.req[r].dto IN
         IF auth.users[dto.email].exists
           THEN auth' = [auth EXCEPT !.req = Respond(r, "error", NoToken)]
           ELSE auth' = [auth EXCEPT
                           !.users[dto.email] = UserRow(Hash(dto.password), TRUE, dto.tenantSlug),
                           !.memberships = @ \cup {Membership(UserId(dto.email),
                                                              auth.req[r].tenant, "member")},
                           !.req = Respond(r, "ok", Token(dto.email, auth.req[r].tenant))]
    /\ UNCHANGED <<jobVars, ai, blk, pg, bill, wp>>

\* prisma/seed.ts: tenants demo and acme, the demo user as owner of demo
SeededAuth ==
    [tenants |-> {"demo", "acme"},
     users |-> [e \in Emails |-> IF e = "demo@example.com"
                                   THEN UserRow(Hash("demo1234"), FALSE, "none")
                                   ELSE NoUser],
     memberships |-> {Membership(UserId("demo@example.com"), TenantId("demo"), "owner")},
     req |-> [r \in Requests |-> IdleRequest]]

\* a database with the acme tenant only
UnseededAuth ==
    [tenants |-> {"acme"}, users |-> [e \in Emails |-> NoUser], memberships |-> {},
     req |-> [r \in Requests |-> IdleRequest]]

AuthInit == auth \in {SeededAuth, UnseededAuth}

InitAuth == AuthInit /\ JobRest /\ AiRest /\ BlkRest /\ PgRest /\ BillRest /\ WpRest

NextAuth ==
    \E r \in Requests :
      \/ \E dto \in SignupDtos : SignupFindUser(r, dto)
      \/ SignupFindTenant(r)
      \/ SignupTransaction(r)

SpecAuth == InitAuth /\ [][NextAuth]_vars

\* every user made by signup is a member of the tenant its request named
C10_State ==
    auth # None =>
      \A email \in Emails :
        (auth.users[email].exists /\ auth.users[email].signup) =>
          Membership(UserId(email),
                     TenantId(IF auth.users[email].tenantSlug \in {NoSlug, ""} THEN "demo"
                              ELSE auth.users[email].tenantSlug),
                     "member") \in auth.memberships

\* what the step of request r that ends its handler does
C10_Step ==
    \A r \in Requests :
      (auth # None /\ auth'.req[r] # auth.req[r] /\ auth'.req[r].pc = "done") =>
        /\ (auth.req[r].pc \in {"idle", "done"}
              /\ auth.users[auth'.req[r].dto.email].exists)
             => auth'.req[r].outcome = "Conflict"
        /\ (/\ auth.req[r].pc = "find_tenant"
            /\ auth.req[r].dto.tenantSlug \notin {NoSlug, ""}
            /\ auth.req[r].dto.tenantSlug \notin auth.tenants)
             => auth'.req[r].outcome = "NotFound"
        /\ (auth.req[r].pc = "find_tenant" /\ auth.req[r].dto.tenantSlug \in {NoSlug, ""})
             => (auth'.req[r].outcome = "NotFound" <=> "demo" \notin auth.tenants)
        /\ auth'.req[r].outcome # "ok"
             => /\ auth'.users = auth.users
                /\ auth'.memberships = auth.memberships
                /\ auth'.tenants = auth.tenants
        /\ auth'.req[r].outcome = "ok"
             => /\ ~auth.users[auth.req[r].dto.email].exists
                /\ auth'.users[auth.req[r].dto.email].exists
                /\ Cardinality(auth'.memberships) = Cardinality(auth.memberships) + 1

\* C10: signup creates the user and its membership in one transaction: in
\* every reachable state each user created by signup has a membership with
\* role member in the tenant the request named ('demo' when it named none);
\* signup with a registered email fails with Conflict, signup with an unknown
\* tenant slug fails with NotFound, and neither creates a user or a membership.
C10_SignupAtomicity == []C10_State /\ [][C10_Step]_vars

\* a signup that named no tenant made a user while another request, refused
\* with Conflict, and the seeded owner are in the tables
C10_Witness ==
    /\ auth # None
    /\ auth.users["new@example.com"] = UserRow(Hash("demo1234"), TRUE, NoSlug)
    /\ Membership(UserId("new@example.com"), TenantId("demo"), "member") \in auth.memberships
    /\ \E r \in Requests : auth.req[r].outcome = "Conflict"
    /\ \E r \in Requests : auth.req[r].outcome = "NotFound"

(***************************************************************************)
(* AuthService.login, at its awaits: the user and the password, the        *)
(* tenant, the membership, the creation of a missing membership.           *)
(***************************************************************************)
LoginPasswords == Passwords \cup {"wrong123"}
LoginSlugs == {NoSlug, "acme", "nope"}
LoginDtos == [email : Emails, password : LoginPasswords, tenantSlug : LoginSlugs]

\* bcrypt.compare
Compare(password, passwordHash) == Hash(password) = passwordHash

\* prisma.membership.findUnique({ where: { userId_tenantId } }) finds a row
HasMembership(memberships, userId, tenantId) ==
    \E m \in memberships : m.userId = userId /\ m.tenantId = tenantId

\* POST /api/auth/login to the password check: unknown email or wrong
\* password -> Unauthorized
LoginFindUser(r, dto) ==
    /\ auth # None
    /\ auth.req[r].pc \in {"idle", "done"}
    /\ IF ~auth.users[dto.email].exists
            \/ ~Compare(dto.password, auth.users[dto.email].passwordHash)
         THEN auth' = [auth EXCEPT !.req = [Respond(r, "Unauthorized", NoToken)
                                              EXCEPT ![r].dto = dto, ![r].op = "login"]]
         ELSE auth' = [auth EXCEPT !.req[r] = [IdleRequest EXCEPT !.pc = "login_tenant",
                                                                  !.op = "login",
                                                                  !.dto = dto]]
    /\ UNCHANGED <<jobVars, ai, blk, pg, bill, wp>>

LoginFindTenant(r) ==
    /\ auth # None
    /\ auth.req[r].pc = "login_tenant"
    /\ LET tenantSlug == SlugOrDemo(auth.req[r].dto.tenantSlug) IN
         IF tenantSlug \notin auth.tenants
           THEN auth' = [auth EXCEPT !.req = Respond(r, "NotFound", NoToken)]
           ELSE auth' = [auth EXCEPT !.req[r].pc = "login_membership",
                                     !.req[r].tenant = TenantId(tenantSlug)]
    /\ UNCHANGED <<jobVars, ai, blk, pg, bill, wp>>

\* the membership is there: the token is signed
LoginFindMembership(r) ==
    /\ auth # None
    /\ auth.req[r].pc = "login_membership"
    /\ LET email == auth.req[r].dto.email
           tenantId == auth.req[r].tenant
       IN IF HasMembership(auth.memberships, UserId(email), tenantId)
            THEN auth' = [auth EXCEPT !.req = Respond(r, "ok", Token(email, tenantId))]
            ELSE auth' = [auth EXCEPT !.req[r].pc = "login_create"]
    /\ UNCHANGED <<jobVars, ai, blk, pg, bill, wp>>

\* login signing the token without creating the membership
LoginTokenOnly(r) ==
    /\ auth # None
    /\ auth.req[r].pc = "login_create"
    /\ auth' = [auth EXCEPT !.req = Respond(r, "ok", Token(auth.req[r].dto.email,
                                                          auth.req[r].tenant))]
    /\ UNCHANGED <<jobVars, ai, blk, pg, bill, wp>>

\* membership.create (it fails on @@unique([userId, tenantId]) when another
\* login made the row meanwhile) and the token
LoginCreateMembership(r) ==
    /\ auth # None
    /\ auth.req[r].pc = "login_create"
    /\ LET email == auth.req[r].dto.email
           tenantId == auth.req[r].tenant
       IN IF HasMembership(auth.memberships, UserId(email), tenantId)
            THEN auth' = [auth EXCEPT !.req = Respond(r, "error", NoToken)]
            ELSE auth' = [auth EXCEPT
                            !.memberships = @ \cup {Membership(UserId(email), tenantId,
                                                               "member")},
                            !.req = Respond(r, "ok", Token(email, tenantId))]
    /\ UNCHANGED <<jobVars, ai, blk, pg, bill, wp>>

NextLogin ==
    \E r \in Requests :
      \/ \E dto \in SignupDtos : SignupFindUser(r, dto)
      \/ SignupFindTenant(r)
      \/ SignupTransaction(r)
      \/ \E dto \in LoginDtos : LoginFindUser(r, dto)
      \/ LoginFindTenant(r)
      \/ LoginFindMembership(r)
      \/ LoginCreateMembership(r)

SpecLogin == InitAuth /\ [][NextLogin]_vars

\* the token of every answered request names a user and a tenant that a
\* membership row joins
C11_State ==
    auth # None =>
      \A r \in Requests :
        auth.req[r].token # NoToken =>
          HasMembership(auth.memberships, auth.req[r].token.sub, auth.req[r].token.tenantId)

\* the step that ends the handler of request r
Ends(r) == auth # None /\ auth'.req[r] # auth.req[r] /\ auth'.req[r].pc = "done"

C11_Step ==
    \A r \in Requests :
      Ends(r) =>
        LET before == auth.req[r]
            after == auth'.req[r]
            userId == UserId(after.dto.email)
        IN /\ after.outcome = "ok"
                => /\ after.token = Token(after.dto.email, before.tenant)
                   /\ HasMembership(auth'.memberships, after.token.sub, after.token.tenantId)
           /\ after.outcome # "ok"
                => /\ after.token = NoToken
                   /\ auth'.users = auth.users
                   /\ auth'.memberships = auth.memberships
                   /\ auth'.tenants = auth.tenants
           /\ (/\ after.op = "login"
               /\ before.pc \in {"idle", "done"}
               /\ \/ ~auth.users[after.dto.email].exists
                  \/ auth.users[after.dto.email].passwordHash # "bcrypt:" \o after.dto.password)
                => after.outcome = "Unauthorized"
           /\ (/\ before.op = "login"
               /\ before.pc = "login_tenant"
               /\ (IF before.dto.tenantSlug = NoSlug THEN "demo" ELSE before.dto.tenantSlug)
                    \notin auth.tenants)
                => after.outcome = "NotFound"
           /\ (after.op = "login" /\ after.outcome = "ok")
                => IF HasMembership(auth.memberships, userId, before.tenant)
                     THEN auth'.memberships = auth.memberships
                     ELSE auth'.memberships =
                            auth.memberships \cup {Membership(userId, before.tenant, "member")}
           /\ after.op = "login" => auth'.users = auth.users

\* a login that found no membership goes on to create it
C11_Missing ==
    \A r \in Requests :
      (auth # None /\ auth.req[r].pc = "login_membership"
         /\ ~HasMembership(auth.memberships, UserId(auth.req[r].dto.email), auth.req[r].tenant)
         /\ auth'.req[r] # auth.req[r])
        => auth'.req[r].pc = "login_create"

\* C11: every token issued by signup or login carries a user id and a tenant
\* id that a membership row joins at the moment of issue; login creates the
\* membership when it is missing and none when it exists; login issues no
\* token and changes no state when the email is unknown, the password is
\* wrong or the tenant slug does not exist.
C11_TokenImpliesMembership == []C11_State /\ [][C11_Step /\ C11_Missing]_vars

\* the seeded owner of demo logged in to acme and was made a member of it,
\* and a login with a wrong password was refused
C11_Witness ==
    /\ auth # None
    /\ \E r \in Requests :
         /\ auth.req[r].op = "login"
         /\ auth.req[r].outcome = "ok"
         /\ auth.req[r].token = Token("demo@example.com", TenantId("acme"))
    /\ Membership(UserId("demo@example.com"), TenantId("acme"), "member") \in auth.memberships
    /\ Membership(UserId("demo@example.com"), TenantId("demo"), "owner") \in auth.memberships
    /\ \E r \in Requests : auth.req[r].outcome = "Unauthorized"

(***************************************************************************)
(* WordPressService against WP-CLI.                                        *)
(*                                                                         *)
(* Text that the code takes apart (the site name, the output of a          *)
(* command) is a sequence of one-character strings. A command of WP-CLI    *)
(* ends as a Cli record: it failed (execAsync rejected) or it printed out. *)
(***************************************************************************)
Cli(failed, out) == [failed |-> failed, out |-> out]
CliFailed == Cli(TRUE, <<>>)

Digits == {"0", "1", "2", "3", "4", "5", "6", "7", "8", "9"}

DigitValue(c) ==
    CASE c = "0" -> 0 [] c = "1" -> 1 [] c = "2" -> 2 [] c = "3" -> 3 [] c = "4" -> 4
      [] c = "5" -> 5 [] c = "6" -> 6 [] c = "7" -> 7 [] c = "8" -> 8 [] c = "9" -> 9

Whitespace == {" ", "\n"}

\* String.prototype.trim
RECURSIVE trim(_)
trim(chars) ==
    IF chars = <<>> THEN <<>>
    ELSE IF Head(chars) \in Whitespace THEN trim(Tail(chars))
    ELSE IF chars[Len(chars)] \in Whitespace THEN trim(SubSeq(chars, 1, Len(chars) - 1))
    ELSE chars

NaN == [nan |-> TRUE, n |-> 0]

\* the value of the digits chars[i..] starts with, continuing acc
RECURSIVE LeadingDigits(_, _, _)
LeadingDigits(chars, i, acc) ==
    IF i > Len(chars) \/ chars[i] \notin Digits THEN acc
    ELSE LeadingDigits(chars, i + 1, 10 * acc + DigitValue(chars[i]))

\* parseInt(text, 10): leading whitespace, a sign, then the digits the text
\* starts with; NaN when it starts with none
parseInt(text) ==
    LET chars == trim(text)
        signed == chars # <<>> /\ chars[1] \in {"-", "+"}
        first == IF signed THEN 2 ELSE 1
    IN IF first > Len(chars) \/ chars[first] \notin Digits THEN NaN
       ELSE [nan |-> FALSE,
             n |-> IF signed /\ chars[1] = "-" THEN 0 - LeadingDigits(chars, first, 0)
                   ELSE LeadingDigits(chars, first, 0)]

\* toLowerCase on the letters of SiteNames
LowerChar(c) ==
    CASE c = "M" -> "m" [] c = "S" -> "s" [] OTHER -> c

SlugChars == Digits \cup {"m", "y", "s", "h", "o", "p"}

\* .replace(/[^a-z0-9]+/g, '-') on lower-case text
RECURSIVE Dashed(_)
Dashed(chars) ==
    IF chars = <<>> THEN <<>>
    ELSE IF Head(chars) \in SlugChars THEN <<Head(chars)>> \o Dashed(Tail(chars))
    ELSE IF Len(chars) > 1 /\ chars[2] \notin SlugChars THEN Dashed(Tail(chars))
    ELSE <<"-">> \o Dashed(Tail(chars))

\* .replace(/(^-|-$)/g, '')
Undashed(chars) ==
    LET from == IF chars # <<>> /\ chars[1] = "-" THEN 2 ELSE 1
        to == IF Len(chars) >= from /\ chars[Len(chars)] = "-" THEN Len(chars) - 1
              ELSE Len(chars)
    IN SubSeq(chars, from, to)

\* .substring(0, n)
Substring(chars, n) == SubSeq(chars, 1, IF Len(chars) < n THEN Len(chars) ELSE n)

\* the slug provisionSite makes of the site's name, and the slug of the subsite
SlugOf(name) == Substring(Undashed(Dashed([i \in 1..Len(name) |-> LowerChar(name[i])])), 50)
SiteSlug(s) == SlugOf(s.name) \o <<"-">> \o Substring(s.id, 8)

\* WP_MULTISITE_URL || 'http://localhost:8080'
wpMultisiteUrl == <<"http://localhost:8080">>

\* provisionSite's answer, or that it threw
Provisioned(wpSiteId, wpAdminUrl, wpSiteUrl) ==
    [threw |-> FALSE, wpSiteId |-> wpSiteId, wpAdminUrl |-> wpAdminUrl,
     wpSiteUrl |-> wpSiteUrl]
ProvisionThrew == [threw |-> TRUE, wpSiteId |-> 0, wpAdminUrl |-> <<>>, wpSiteUrl |-> <<>>]

\* runWpCli: the command's output trimmed, or its failure thrown on
runWpCli(cli) == Cli(cli.failed, trim(cli.out))

\* provisionSite; create is how `site create` ended, mockSiteId is
\* Math.floor(Math.random() * 10000)
provisionSite(s, dev, create, mockSiteId) ==
    LET siteSlug == SiteSlug(s)
        siteUrl == wpMultisiteUrl \o <<"/">> \o siteSlug
        createOutput == runWpCli(create)
        wpSiteId == parseInt(createOutput.out)
    IN IF ~createOutput.failed /\ ~wpSiteId.nan
         THEN Provisioned(wpSiteId.n, siteUrl \o <<"/wp-admin">>, siteUrl)
       ELSE IF dev
         THEN Provisioned(mockSiteId,
                          wpMultisiteUrl \o <<"/">> \o siteSlug \o <<"/wp-admin">>,
                          wpMultisiteUrl \o <<"/">> \o siteSlug)
       ELSE ProvisionThrew

\* applyThemeAndPlugins rethrowing whatever NODE_ENV is
applyThemeAndPluginsRethrows(dev, activate) == runWpCli(activate).failed

\* applyThemeAndPlugins throws: `theme activate` failed outside development
applyThemeAndPluginsThrows(dev, activate) == runWpCli(activate).failed /\ ~dev

\* escapeShell, and the argument the shell makes of the quoted text
escapeShell(str) == [i \in 1..Len(str) |-> IF str[i] = Chr("'") THEN Chr("'\\''") ELSE str[i]]
ShellArg(str) == [i \in 1..Len(str) |-> IF str[i] = Chr("'\\''") THEN Chr("'") ELSE str[i]]

\* a page of the subsite (its id is its place in wp.posts)
Post(slug, title, content) == [slug |-> slug, title |-> title, content |-> content]

\* post list --post_type=page --name=slug --format=ids
PostList(posts, slug) == SelectSeq([id \in 1..Len(posts) |-> id], LAMBDA id : posts[id].slug = slug)

\* --post_content of the update and create commands for the page
PostContent(page, accentColor) ==
    ShellArg(escapeShell(compilePageToGutenberg(page, accentColor)))

MaxPages == 2

WpSites ==
    { [id |-> <<"c", "l", "x", "4", "2", "a", "b", "c", "d", "e">>,
       name |-> <<"M", "y", " ", " ", "S", "h", "o", "p", "!">>, email |-> "o@x.test"],
      [id |-> <<"c", "9">>, name |-> <<"!", "9">>, email |-> "o@x.test"] }

NoSite == [id |-> <<>>, name |-> <<>>, email |-> "none"]

\* ways `site create --porcelain` ends
CreateOutputs ==
    { CliFailed, Cli(FALSE, <<"4", "\n">>), Cli(FALSE, <<"1", "2">>), Cli(FALSE, <<>>),
      Cli(FALSE, <<"E", "r", "r">>), Cli(FALSE, <<"7", "a">>), Cli(FALSE, <<"0">>) }

CliOk == Cli(FALSE, <<>>)
CliEnds == {CliFailed, CliOk}

PublishSection ==
    [id |-> "id", type |-> "hero", variant |-> 1,
     blocks |-> <<[type |-> "image",
                   props |-> [src |-> <<Chr("'"), Chr("a")>>, alt |-> <<Chr("'")>>]]>>]

PublishPages ==
    { [title |-> "Home", slug |-> "home", sections |-> <<>>],
      [title |-> "Home", slug |-> "home", sections |-> <<PublishSection>>],
      [title |-> "Contact", slug |-> "contact", sections |-> <<>>] }

PublishContents ==
    [pages : SeqsUpTo(PublishPages, MaxPages), settings : {[accentColor |-> "#2563EB"]}]

NoContent == [pages |-> <<>>, settings |-> [accentColor |-> "#2563EB"]]

\* the pages the subsite has when the service starts
SeedPosts ==
    { <<>>, <<Post("home", "Old", <<>>)>>,
      <<Post("home", "Old", <<>>), Post("home", "Older", <<>>)>>,
      <<Post("about", "About", <<>>)>> }

\* WordPressService's constructor and NODE_ENV
WpInit ==
    \E dev \in BOOLEAN, posts \in SeedPosts :
      wp = [dev |-> dev, posts |-> posts, showOnFront |-> "posts", pageOnFront |-> 0,
            pc |-> "idle", op |-> "none", site |-> NoSite, content |-> NoContent,
            i |-> 0, ids |-> <<>>,
            writes |-> <<>>, start |-> posts, repeat |-> FALSE, cli |-> CliOk,
            outcome |-> "none", result |-> ProvisionThrew]

\* a call of the service begins
WpCall(op) ==
    [wp EXCEPT !.pc = "done", !.op = op, !.site = NoSite, !.content = NoContent,
               !.i = 0, !.ids = <<>>,
               !.writes = <<>>, !.start = wp.posts, !.repeat = FALSE, !.cli = CliOk,
               !.outcome = "returned", !.result = ProvisionThrew]

WpProvisionSite(s, create, mockSiteId) ==
    /\ wp # None
    /\ wp.pc \in {"idle", "done"}
    /\ LET result == provisionSite(s, wp.dev, create, mockSiteId) IN
         wp' = [WpCall("provisionSite") EXCEPT
                  !.site = s, !.cli = create, !.result = result,
                  !.outcome = IF result.threw THEN "threw" ELSE "returned"]
    /\ UNCHANGED <<jobVars, ai, blk, pg, bill, auth>>

WpApplyThemeAndPlugins(activate) ==
    /\ wp # None
    /\ wp.pc \in {"idle", "done"}
    /\ wp' = [WpCall("applyThemeAndPlugins") EXCEPT
                !.cli = activate,
                !.outcome = IF applyThemeAndPluginsThrows(wp.dev, activate) THEN "threw"
                            ELSE "returned"]
    /\ UNCHANGED <<jobVars, ai, blk, pg, bill, auth>>

\* publishVersion's catch: development logs and returns, otherwise rethrows
PublishCaught(cli) ==
    [wp EXCEPT !.pc = "done", !.cli = cli,
               !.outcome = IF wp.dev THEN "returned" ELSE "threw"]

\* publishVersion up to its first command
WpPublishVersion(content) ==
    /\ wp # None
    /\ wp.pc \in {"idle", "done"}
    /\ wp' = [WpCall("publishVersion") EXCEPT
                !.content = content,
                !.repeat = /\ wp.op = "publishVersion"
                           /\ wp.outcome = "returned"
                           /\ ~wp.cli.failed
                           /\ wp.content = content,
                !.pc = IF content.pages = <<>> THEN "done" ELSE "list",
                !.i = IF content.pages = <<>> THEN 0 ELSE 1]
    /\ UNCHANGED <<jobVars, ai, blk, pg, bill, auth>>

\* `post list` for the page's slug answers
WpPostList(cli) ==
    /\ wp # None
    /\ wp.pc = "list"
    /\ wp' = IF runWpCli(cli).failed THEN PublishCaught(cli)
             ELSE [wp EXCEPT !.pc = "write", !.cli = cli,
                             !.ids = PostList(wp.posts, wp.content.pages[wp.i].slug)]
    /\ UNCHANGED <<jobVars, ai, blk, pg, bill, auth>>

\* after the write of page i: the next page, or the home page setting
AfterWrite(content, i) ==
    IF i < Len(content.pages) THEN "list"
    ELSE IF \E k \in 1..Len(content.pages) : content.pages[k].slug = "home" THEN "home_list"
    ELSE "done"

\* the write of page i as a `post create` whatever `post list` answered
PublishCreate(page) ==
    [wp EXCEPT !.posts = Append(@, Post(page.slug, page.title,
                                        PostContent(page, wp.content.settings.accentColor))),
               !.writes = Append(@, [command |-> "create", slug |-> page.slug,
                                     id |-> Len(wp.posts) + 1])]

\* the write of page i: `post update` of the first id listed, else `post create`
PublishWrite(page) ==
    IF wp.ids # <<>>
      THEN [wp EXCEPT !.posts[Head(wp.ids)].content =
                        PostContent(page, wp.content.settings.accentColor),
                      !.writes = Append(@, [command |-> "update", slug |-> page.slug,
                                            id |-> Head(wp.ids)])]
      ELSE [wp EXCEPT !.posts = Append(@, Post(page.slug, page.title,
                                               PostContent(page, wp.content.settings.accentColor))),
                      !.writes = Append(@, [command |-> "create", slug |-> page.slug,
                                            id |-> Len(wp.posts) + 1])]

\* `post update` or `post create` answers
WpPostWrite(cli) ==
    /\ wp # None
    /\ wp.pc = "write"
    /\ wp' = IF runWpCli(cli).failed THEN PublishCaught(cli)
             ELSE [PublishWrite(wp.content.pages[wp.i]) EXCEPT
                     !.cli = cli,
                     !.pc = AfterWrite(wp.content, wp.i),
                     !.i = IF wp.i < Len(wp.content.pages) THEN wp.i + 1 ELSE wp.i]
    /\ UNCHANGED <<jobVars, ai, blk, pg, bill, auth>>

\* `post list` for the slug home answers
WpHomeList(cli) ==
    /\ wp # None
    /\ wp.pc = "home_list"
    /\ wp' = IF runWpCli(cli).failed THEN PublishCaught(cli)
             ELSE LET homePageId == PostList(wp.posts, "home") IN
                    [wp EXCEPT !.cli = cli, !.ids = homePageId,
                               !.pc = IF homePageId # <<>> THEN "show_on_front" ELSE "done"]
    /\ UNCHANGED <<jobVars, ai, blk, pg, bill, auth>>

\* `option update show_on_front page` answers
WpShowOnFront(cli) ==
    /\ wp # None
    /\ wp.pc = "show_on_front"
    /\ wp' = IF runWpCli(cli).failed THEN PublishCaught(cli)
             ELSE [wp EXCEPT !.cli = cli, !.showOnFront = "page", !.pc = "page_on_front"]
    /\ UNCHANGED <<jobVars, ai, blk, pg, bill, auth>>

\* `option update page_on_front` answers
WpPageOnFront(cli) ==
    /\ wp # None
    /\ wp.pc = "page_on_front"
    /\ wp' = IF runWpCli(cli).failed THEN PublishCaught(cli)
             ELSE [wp EXCEPT !.cli = cli, !.pageOnFront = Head(wp.ids), !.pc = "done"]
    /\ UNCHANGED <<jobVars, ai, blk, pg, bill, auth>>

InitWordPress ==
    WpInit /\ JobRest /\ AiRest /\ BlkRest /\ PgRest /\ BillRest /\ AuthRest

NextWordPress ==
    \/ \E s \in WpSites, create \in CreateOutputs, mockSiteId \in MockWpIds :
         WpProvisionSite(s, create, mockSiteId)
    \/ \E activate \in CliEnds : WpApplyThemeAndPlugins(activate)
    \/ \E content \in PublishContents : WpPublishVersion(content)
    \/ \E cli \in CliEnds : WpPostList(cli)
    \/ \E cli \in CliEnds : WpPostWrite(cli)
    \/ \E cli \in CliEnds : WpHomeList(cli)
    \/ \E cli \in CliEnds : WpShowOnFront(cli)
    \/ \E cli \in CliEnds : WpPageOnFront(cli)

SpecWordPress == InitWordPress /\ [][NextWordPress]_vars

\* publishVersion has returned and none of its commands failed
Published == wp # None /\ wp.pc = "done" /\ wp.op = "publishVersion" /\ ~wp.cli.failed

Slugs(posts) == {posts[id].slug : id \in 1..Len(posts)}

\* one write per page in order; a second publish of the same content leaves
\* the pages as the first left them
C12_State ==
    Published =>
      /\ Len(wp.writes) = Len(wp.content.pages)
      /\ \A i \in 1..Len(wp.writes) : wp.writes[i].slug = wp.content.pages[i].slug
      /\ wp.repeat => wp.posts = wp.start

\* the write of a page updates the first page that has the slug when there
\* is one and creates a page otherwise
C12_Step ==
    (wp # None /\ wp.pc = "write" /\ wp' # wp /\ ~wp'.cli.failed) =>
      LET page == wp.content.pages[wp.i]
          existing == {id \in 1..Len(wp.posts) : wp.posts[id].slug = page.slug}
          first == CHOOSE id \in existing : \A other \in existing : id <= other
      IN /\ Len(wp'.writes) = Len(wp.writes) + 1
         /\ IF existing # {}
              THEN /\ wp'.writes[Len(wp'.writes)] =
                        [command |-> "update", slug |-> page.slug, id |-> first]
                   /\ Len(wp'.posts) = Len(wp.posts)
                   /\ \A id \in 1..Len(wp.posts) :
                        id # first => wp'.posts[id] = wp.posts[id]
                   /\ wp'.posts[first].slug = page.slug
              ELSE /\ wp'.writes[Len(wp'.writes)].command = "create"
                   /\ Len(wp'.posts) = Len(wp.posts) + 1
                   /\ SubSeq(wp'.posts, 1, Len(wp.posts)) = wp.posts
                   /\ wp'.posts[Len(wp'.posts)].slug = page.slug

\* no step adds a page whose slug a page has already, and only a write adds
\* or changes a page
C12_NoSecondPage ==
    (wp # None /\ wp'.posts # wp.posts) =>
      /\ wp.pc = "write"
      /\ Len(wp'.posts) > Len(wp.posts)
           => wp'.posts[Len(wp'.posts)].slug \notin Slugs(wp.posts)

\* C12: publishVersion issues, for each page of the content in order, exactly
\* one write: an update of the first existing page with the page's slug when
\* there is one, otherwise a create; with sequential calls and no command
\* failing it never creates a second page for a slug that exists, and
\* publishing the same content twice leaves the pages that publishing it once
\* leaves.
C12_UpdateOrCreate == []C12_State /\ [][C12_Step /\ C12_NoSecondPage]_vars

\* the same two pages were published twice in a row: the second time both
\* writes were updates and the pages are as before
C12_Witness ==
    /\ Published
    /\ wp.repeat
    /\ Len(wp.content.pages) = 2
    /\ wp.content.pages[1].slug # wp.content.pages[2].slug
    /\ \A i \in 1..Len(wp.writes) : wp.writes[i].command = "update"
    /\ wp.posts = wp.start
    /\ Len(wp.posts) > 2

\* a call of the service has ended
WpDone(op) == wp # None /\ wp.pc = "done" /\ wp.op = op

\* the call ended as the mode demands when failed tells whether a command of
\* it failed: outside development a failure is thrown on, in development
\* nothing is thrown and provisionSite answers the URLs of the real path
ByMode(failed) ==
    /\ (~wp.dev /\ failed) => wp.outcome = "threw"
    /\ wp.dev => wp.outcome = "returned"
    /\ (wp.dev /\ wp.op = "provisionSite") =>
         LET real == provisionSite(wp.site, FALSE, Cli(FALSE, <<"1">>), 0) IN
           /\ ~wp.result.threw
           /\ wp.result.wpSiteUrl = real.wpSiteUrl
           /\ wp.result.wpAdminUrl = real.wpAdminUrl

\* the text is a number: digits and nothing else
IsNumber(text) == text # <<>> /\ \A i \in 1..Len(text) : text[i] \in Digits

\* C13 as stated: outside development every failure of a WP-CLI command in
\* provisionSite, applyThemeAndPlugins or publishVersion, a site-create output
\* that is not a number included, reaches the caller as an error; in
\* development none of the three throws, provisionSite answering a simulated
\* result with the URLs of the real path.
C13_ErrorByMode ==
    (wp # None /\ wp.pc = "done" /\ wp.op # "none") =>
      ByMode(\/ wp.cli.failed
             \/ wp.op = "provisionSite" /\ ~IsNumber(trim(wp.cli.out)))

\* C13 amended: the same, where the site-create output that counts as a
\* failure is one in which parseInt finds no integer at its start; an output
\* that starts with an integer and goes on with other text is taken for that
\* site id. A failed command is the last one of its call.
C13_ErrorByModeParsed ==
    (wp # None /\ wp.op # "none") =>
      /\ wp.cli.failed => wp.pc = "done"
      /\ wp.pc = "done" =>
           /\ ByMode(\/ wp.cli.failed
                     \/ wp.op = "provisionSite" /\ parseInt(wp.cli.out).nan)
           /\ (wp.op = "provisionSite" /\ ~wp.cli.failed /\ ~parseInt(wp.cli.out).nan) =>
                wp.result = Provisioned(parseInt(wp.cli.out).n, wp.result.wpAdminUrl,
                                        wp.result.wpSiteUrl)

\* in development `site create` printed an error text and provisionSite
\* answered a simulated site
C13_Witness ==
    /\ WpDone("provisionSite")
    /\ wp.dev
    /\ ~wp.cli.failed
    /\ parseInt(wp.cli.out).nan
    /\ wp.cli.out # <<>>
    /\ wp.outcome = "returned"
    /\ wp.result.wpSiteId \in MockWpIds
    /\ wp.result.wpSiteUrl =
         <<"http://localhost:8080", "/", "m", "y", "-", "s", "h", "o", "p", "-",
           "c", "l", "x", "4", "2", "a", "b", "c">>

(***************************************************************************)
(* Versions and version pointers under the job handlers.                   *)
(***************************************************************************)
AllSites == SiteIds \cup {GhostSite}

VersionNumbers(s) == {versions[v].versionNumber : v \in VersionsOf(s)}

\* the highest version number of the site, 0 when it has no version
HighestNumber(s) ==
    IF VersionsOf(s) = {} THEN 0
    ELSE CHOOSE n \in VersionNumbers(s) : \A m \in VersionNumbers(s) : m <= n

\* the version numbers of every site are distinct and are 1..n
C14_State ==
    \A s \in AllSites :
      /\ \A v, w \in VersionsOf(s) :
           versions[v].versionNumber = versions[w].versionNumber => v = w
      /\ VersionNumbers(s) = 1..Cardinality(VersionsOf(s))

\* the only change of the versions table is a new row whose number is the
\* highest number of its site plus one
C14_Step ==
    versions' # versions =>
      /\ Len(versions') = Len(versions) + 1
      /\ SubSeq(versions', 1, Len(versions)) = versions
      /\ LET new == versions'[Len(versions')] IN
           new.versionNumber = HighestNumber(new.siteId) + 1

\* C14: handleGenerate numbers the new version one above the highest version
\* number of the site, 1 when the site has none; so after any sequence of
\* provision, generate, publish and rollback jobs the version numbers of a
\* site are pairwise distinct and are exactly 1..n for its n versions.
C14_VersionNumbering == []C14_State /\ [][C14_Step]_vars

\* a site got its first version from one job and its second from another
C14_Witness ==
    \E s \in SiteIds : \E v, w \in VersionsOf(s) :
      /\ versions[v].versionNumber = 1
      /\ versions[w].versionNumber = 2
      /\ versions[v].createdBy # 0
      /\ versions[w].createdBy # 0
      /\ versions[v].createdBy # versions[w].createdBy

\* jobs j and k have both read the highest version number of the same site
\* and neither has created its version
BothRead(j, k) ==
    /\ j # k
    /\ job[j].pc = "gen_create"
    /\ job[k].pc = "gen_create"
    /\ job[j].siteId = job[k].siteId

\* j and k are the only jobs of site s
OnlyJobsOf(s, j, k) ==
    \A l \in JobIds \ {j, k} : job[l].pc = "absent" \/ job[l].siteId # s

C15_State ==
    /\ \A j, k \in JobIds :
         (BothRead(j, k)
            /\ ~VersionTaken(job[j].siteId, job[j].nextVersion)
            /\ ~VersionTaken(job[k].siteId, job[k].nextVersion))
           => job[j].nextVersion = job[k].nextVersion
    /\ \A v, w \in VersionIds :
         (versions[v].siteId = versions[w].siteId
            /\ versions[v].versionNumber = versions[w].versionNumber) => v = w
    /\ \A j, k \in JobIds :
         (/\ j # k
          /\ job[j].pc = "done" /\ job[j].error = "Unique constraint failed"
          /\ job[k].pc = "done" /\ job[k].status = "completed"
          /\ job[k].handler \in {"handleGenerate", "handleProvision"}
          /\ job[k].siteId = job[j].siteId
          /\ OnlyJobsOf(job[j].siteId, j, k))
           => /\ job[j].status = "failed"
              /\ site[job[j].siteId].currentVersionId \in VersionIds
              /\ versions[site[job[j].siteId].currentVersionId].createdBy = k

\* of two jobs that read the same number, the create of the first takes the
\* number, and the create of the other then fails and writes nothing
C15_Step ==
    \A j \in JobIds :
      (job[j].pc = "gen_create" /\ job'[j] # job[j]) =>
        IF VersionTaken(job[j].siteId, job[j].nextVersion)
          THEN /\ job'[j].pc = "catch"
               /\ job'[j].caught = "Unique constraint failed"
               /\ versions' = versions
               /\ site' = site
          ELSE /\ Len(versions') = Len(versions) + 1
               /\ versions'[Len(versions')].createdBy = j
               /\ \A k \in JobIds :
                    (BothRead(j, k) /\ job[k].nextVersion = job[j].nextVersion)
                      => /\ job'[k] = job[k]
                         /\ \E v \in 1..Len(versions') :
                              /\ versions'[v].siteId = job[k].siteId
                              /\ versions'[v].versionNumber = job[k].nextVersion

\* C15: two generate or provision jobs of one site that both read the highest
\* version number before either creates its version compute the same next
\* number; the uniqueness of (siteId, versionNumber) lets one create succeed,
\* the other job ends failed, no two versions of a site share a number, and
\* the site's currentVersionId ends at the version that was created.
C15_ConcurrentGeneration == []C15_State /\ [][C15_Step]_vars

\* a generate job and a provision job of site s1 ran at the same time: one
\* failed on the version number, the other's version is the current one
C15_Witness ==
    \E j, k \in JobIds :
      /\ job[j].pc = "done" /\ job[j].status = "failed"
      /\ job[j].error = "Unique constraint failed"
      /\ job[k].pc = "done" /\ job[k].status = "completed"
      /\ {job[j].type, job[k].type} = {"generate", "provision"}
      /\ job[j].siteId = "s1" /\ job[k].siteId = "s1"
      /\ site["s1"].currentVersionId \in VersionIds
      /\ versions[site["s1"].currentVersionId].createdBy = k

(***************************************************************************)
(* Version pointers of a site.                                             *)
(***************************************************************************)
\* a pointer is null or names a version of site s
ValidPointer(s, v) == v = NoId \/ v \in VersionsOf(s)

\* C16: in every state reached through provision, generate, publish and
\* rollback jobs, currentVersionId and publishedVersionId of every site are
\* each null or the id of an existing version of that same site.
C16_PointersValid ==
    \A s \in SiteIds :
        /\ ValidPointer(s, site[s].currentVersionId)
        /\ ValidPointer(s, site[s].publishedVersionId)

\* a rollback job has moved both pointers of a site to an older version while
\* a newer version of the site exists, and another site has versions too
C16_Witness ==
    \E j \in JobIds :
        /\ job[j].handler = "handleRollback"
        /\ job[j].status = "completed"
        /\ LET s == job[j].siteId IN
             /\ site[s].currentVersionId = job[j].metaVersionId
             /\ site[s].publishedVersionId = job[j].metaVersionId
             /\ \E v \in VersionsOf(s) : v > site[s].currentVersionId
             /\ \E t \in SiteIds \ {s} : VersionsOf(t) # {}

(***************************************************************************)
(* The published status.                                                   *)
(***************************************************************************)
C17_State ==
    \A s \in SiteIds :
        site[s].status = "published" =>
            /\ site[s].publishedVersionId # NoId
            /\ site[s].wpSiteId # NoId

C17_Step ==
    \A j \in JobIds :
        (job[j].pc = "gen_update" /\ Steps(j)) =>
            LET s == job[j].siteId IN
              /\ job'[j].pc = "return"
              /\ site'[s].status = "draft"
              /\ site'[s].currentVersionId # site[s].currentVersionId
              /\ site'[s].currentVersionId = job[j].version
              /\ site'[s].publishedVersionId = site[s].publishedVersionId
              /\ site'[s].wpSiteId = site[s].wpSiteId

\* a generate job that has completed made exactly that one write to its site
C17_Done ==
    \A j \in JobIds :
        (job[j].type = "generate" /\ job[j].status = "completed") =>
            job[j].writes = <<"draft">>

\* C17: a site with status published has a non-null publishedVersionId and a
\* non-null wpSiteId; a generate job that succeeds sets the status back to
\* draft and changes currentVersionId while publishedVersionId stays as it is.
C17_PublishedImpliesVersion ==
    /\ [](C17_State /\ C17_Done)
    /\ [][C17_Step]_vars

\* a site published by a job was generated again: it is a draft whose current
\* version is newer than the version that is still the published one
C17_Witness ==
    \E j, k \in JobIds :
        /\ job[j].handler = "handlePublish" /\ job[j].status = "completed"
        /\ job[k].type = "generate" /\ job[k].status = "completed"
        /\ job[k].siteId = job[j].siteId
        /\ LET s == job[j].siteId IN
             /\ site[s].status = "draft"
             /\ site[s].publishedVersionId \in VersionsOf(s)
             /\ site[s].currentVersionId \in VersionsOf(s)
             /\ site[s].currentVersionId > site[s].publishedVersionId

(***************************************************************************)
(* The checks of handlePublish and handleRollback.                         *)
(***************************************************************************)
\* job j's step threw the error msg
Raises(j, msg) == job'[j].pc = "catch" /\ job'[j].caught = msg

\* the checks of handlePublish in their order, the third one read as a check
\* of wpSiteId against null
C18_Publish ==
    \A j \in JobIds :
        LET s == job[j].siteId IN
          /\ (job[j].pc = "pub_find" /\ Steps(j)) =>
               IF ~SiteExists(s) THEN Raises(j, "Site not found")
               ELSE IF site[s].currentVersionId = NoId
                    THEN Raises(j, "No current version to publish")
                    ELSE IF site[s].wpSiteId = NoId
                         THEN Raises(j, "WordPress site not provisioned")
                         ELSE job'[j].pc = "pub_version"
          /\ (job[j].pc = "pub_version" /\ Steps(j)) =>
               IF job[j].version \notin VersionIds
               THEN Raises(j, "Version not found")
               ELSE job'[j].pc = "pub_wp"
          /\ job'[j].pc = "pub_wp" => job[j].pc \in {"pub_version", "pub_wp"}

\* handleRollback raises the error exactly for a site whose wpSiteId is null
C18_Rollback ==
    \A j \in JobIds :
        (job[j].pc = "rb_find" /\ Steps(j)) =>
            (Raises(j, "WordPress site not provisioned")
               <=> /\ job[j].metaVersionId # NoId
                   /\ SiteExists(job[j].siteId)
                   /\ site[job[j].siteId].wpSiteId = NoId)

\* C18: handlePublish checks in this order that the site exists, that
\* currentVersionId is set, that the site is provisioned and that the current
\* version exists, and fails at the first check that does not hold without
\* calling WordPress; handlePublish and handleRollback raise 'WordPress site
\* not provisioned' if and only if wpSiteId is null.
C18_PublishPreconditions == [][C18_Publish /\ C18_Rollback]_vars

\* the same order of checks, the third one as the code evaluates !wpSiteId:
\* null and the number 0 both count as not provisioned
C18_PublishFalsy ==
    \A j \in JobIds :
        LET s == job[j].siteId IN
          /\ (job[j].pc = "pub_find" /\ Steps(j)) =>
               IF ~SiteExists(s) THEN Raises(j, "Site not found")
               ELSE IF site[s].currentVersionId = NoId
                    THEN Raises(j, "No current version to publish")
                    ELSE IF site[s].wpSiteId \in {NoId, 0}
                         THEN Raises(j, "WordPress site not provisioned")
                         ELSE job'[j].pc = "pub_version"
          /\ (job[j].pc = "pub_version" /\ Steps(j)) =>
               IF job[j].version \notin VersionIds
               THEN Raises(j, "Version not found")
               ELSE job'[j].pc = "pub_wp"
          /\ job'[j].pc = "pub_wp" => job[j].pc \in {"pub_version", "pub_wp"}

C18_PreconditionsFalsy == [][C18_PublishFalsy]_vars

\* a provision job completed for a site that a later publish job refused as
\* not provisioned
C18_Refused ==
    \E j, k \in JobIds :
        /\ job[j].type = "provision" /\ job[j].status = "completed"
        /\ job[k].type = "publish" /\ job[k].status = "failed"
        /\ job[k].siteId = job[j].siteId
        /\ job[k].error = "WordPress site not provisioned"
        /\ site[job[j].siteId].wpSiteId = 0

(***************************************************************************)
(* Publish and rollback jobs that fail.                                    *)
(***************************************************************************)
\* job j is a publish or rollback job
Publishes(j) == job[j].type \in {"publish", "rollback"}

\* while a publish or rollback job is processed, the site rows and the
\* versions change only in the job's last step, the site.update after
\* publishVersion has returned; an error that is caught ends the job failed
C19_Step ==
    \A j \in JobIds :
        /\ (Publishes(j) /\ InProcess(j)
              /\ ~(job[j].pc \in {"pub_update", "rb_update"} /\ Steps(j)))
             => (site' = site /\ versions' = versions)
        /\ (Publishes(j) /\ job[j].pc = "catch" /\ Steps(j))
             => (job'[j].pc = "done" /\ job'[j].status = "failed")

\* a publish or rollback job that threw made no write to its site
C19_State ==
    \A j \in JobIds :
        (Publishes(j) /\ (job[j].pc = "catch" \/ job[j].status = "failed"))
            => job[j].writes = << >>

\* C19: when a publish or rollback job fails at a precondition check or
\* because publishVersion throws, the status, currentVersionId and
\* publishedVersionId of the site keep the values they had before the job,
\* no version is created or deleted, and the job ends failed.
C19_FailedPublishUnchanged == []C19_State /\ [][C19_Step]_vars

\* a publish job failed because publishVersion threw and a rollback job
\* failed at a check, on a site that has a current version
C19_Witness ==
    \E j, k \in JobIds :
        /\ job[j].type = "publish" /\ job[j].status = "failed"
        /\ job[j].error = "wp-cli failed"
        /\ job[k].type = "rollback" /\ job[k].status = "failed"
        /\ job[k].error = "Version not found"
        /\ job[k].siteId = job[j].siteId
        /\ site[job[j].siteId].currentVersionId # NoId
        /\ site[job[j].siteId].status = "draft"

(***************************************************************************)
(* handleRollback.                                                         *)
(***************************************************************************)
\* version v exists and belongs to site s
VersionOfSite(v, s) == v \in VersionIds /\ versions[v].siteId = s

C20_Step ==
    \A j \in JobIds :
        LET s == job[j].siteId
            v == job[j].metaVersionId IN
          /\ (job[j].pc = "rb_find" /\ Steps(j) /\ v = NoId)
               => Raises(j, "Version ID required for rollback")
          /\ (job[j].pc = "rb_version" /\ Steps(j)) =>
               IF VersionOfSite(v, s)
               THEN job'[j].pc = "rb_wp" /\ job'[j].version = v
               ELSE Raises(j, "Version not found")
          /\ job'[j].pc = "rb_wp" => job[j].pc \in {"rb_version", "rb_wp"}
          /\ (job[j].pc = "rb_update" /\ Steps(j)) =>
               /\ job'[j].pc = "return"
               /\ site'[s].currentVersionId = v
               /\ site'[s].publishedVersionId = v
               /\ site'[s].status = "published"
          /\ (job[j].handler = "handleRollback" /\ InProcess(j))
               => versions' = versions

\* publishVersion is called with the site's wpSiteId and the version named in
\* the metadata, which is a version of the job's site; a rollback job that
\* has completed made its one write
C20_State ==
    \A j \in JobIds :
        /\ job[j].pc \in {"rb_wp", "rb_update"} =>
             /\ job[j].version = job[j].metaVersionId
             /\ VersionOfSite(job[j].version, job[j].siteId)
             /\ job[j].wpSiteId = site[job[j].siteId].wpSiteId
        /\ (job[j].handler = "handleRollback" /\ job[j].status = "completed")
             => job[j].writes = <<"published">>

\* C20: handleRollback requires a versionId in the job metadata and accepts
\* only a version whose siteId is the job's site: a version of another site
\* or a missing version fails with 'Version not found' before anything is
\* published. On success it republishes that version's content, sets
\* currentVersionId and publishedVersionId to that version and the status to
\* published, and creates no version.
C20_Rollback == []C20_State /\ [][C20_Step]_vars

\* one rollback job published a draft site's version, another one that named
\* a version of the other site failed, and one without versionId failed
C20_Witness ==
    \E j, k \in JobIds :
        /\ job[j].handler = "handleRollback" /\ job[j].status = "completed"
        /\ job[k].handler = "handleRollback" /\ job[k].status = "failed"
        /\ job[k].error = "Version not found"
        /\ job[k].siteId = job[j].siteId
        /\ job[k].metaVersionId \in VersionIds
        /\ versions[job[k].metaVersionId].siteId # job[k].siteId
        /\ LET s == job[j].siteId IN
             /\ site[s].status = "published"
             /\ site[s].currentVersionId = job[j].metaVersionId
             /\ site[s].publishedVersionId = job[j].metaVersionId

(***************************************************************************)
(* The settings handleGenerate generates from.                             *)
(***************************************************************************)
\* the settings of the version of site s with the highest number, NULL when
\* the site has no version
HighestSettings(s) ==
    IF VersionsOf(s) = {} THEN NULL
    ELSE LET v == CHOOSE w \in VersionsOf(s) :
                     versions[w].versionNumber = HighestNumber(s)
         IN versions[v].settings

C21_Step ==
    \A j \in JobIds :
        LET s == job[j].siteId IN
          /\ (job[j].pc = "gen_find" /\ Steps(j) /\ SiteExists(s)) =>
               IF job[j].metaSettings # NULL
               THEN /\ job'[j].pc = "gen_max"
                    /\ job'[j].settings = job[j].metaSettings
                    /\ job'[j].aiCalled
               ELSE IF HighestSettings(s) # NULL
                    THEN /\ job'[j].pc = "gen_max"
                         /\ job'[j].settings = HighestSettings(s)
                         /\ job'[j].aiCalled
                    ELSE /\ Raises(j, "No settings found for generation")
                         /\ ~job'[j].aiCalled
                         /\ site' = site
                         /\ versions' = versions
          /\ (job[j].caught = "No settings found for generation" /\ Steps(j))
               => (site' = site /\ versions' = versions /\ ~job'[j].aiCalled)
          /\ (job[j].pc = "gen_create" /\ Steps(j) /\ Len(versions') > Len(versions))
               => versions'[Len(versions')].settings = job[j].settings

\* a job that failed for want of settings called no AI service and created
\* no version, and a generate job of that kind wrote nothing to its site
C21_State ==
    \A j \in JobIds :
        job[j].caught = "No settings found for generation" =>
            /\ ~job[j].aiCalled
            /\ \A v \in VersionIds : versions[v].createdBy # j
            /\ job[j].type = "generate" => job[j].writes = << >>
            /\ job[j].pc = "done" => job[j].status = "failed"

\* C21: handleGenerate takes the settings from the job metadata when present,
\* otherwise from the site's version with the highest version number; when
\* neither exists it fails with 'No settings found for generation' without
\* calling the AI service, without creating a version and without changing
\* the site's status or currentVersionId.
C21_SettingsForGeneration == []C21_State /\ [][C21_Step]_vars

\* a generate job without settings failed on a site that had no version, and
\* a job with settings in its metadata then created the site's first version
\* from them
C21_Witness ==
    \E j, k \in JobIds :
        /\ job[j].type = "generate" /\ job[j].status = "failed"
        /\ job[j].error = "No settings found for generation"
        /\ job[k].siteId = job[j].siteId
        /\ job[k].metaSettings # NULL /\ job[k].status = "completed"
        /\ \E v \in VersionsOf(job[k].siteId) :
             /\ versions[v].createdBy = k
             /\ versions[v].settings = job[k].metaSettings
             /\ site[job[k].siteId].currentVersionId = v

\* a job without settings in its metadata generated from the settings of the
\* highest version, which an earlier job had created from other settings
C21_FromHighest ==
    \E k \in JobIds, v \in VersionIds :
        /\ job[k].metaSettings = NULL
        /\ versions[v].createdBy = k
        /\ versions[v].settings # SeedSettings

(***************************************************************************)
(* The site status after a job has failed.                                 *)
(***************************************************************************)
\* job j's step threw
Throws(j) == job[j].pc # "catch" /\ job'[j].pc = "catch"

\* no site has the status error and no job has written it
C22_State ==
    /\ \A s \in SiteIds : site[s].status # "error"
    /\ \A j \in JobIds : \A i \in 1..Len(job[j].writes) : job[j].writes[i] # "error"

C22_Step ==
    \A j \in JobIds :
        LET s == job[j].siteId IN
          \* the catch clause records the failure and leaves the site as the
          \* last write of the job left it
          /\ (job[j].pc = "catch" /\ Steps(j)) =>
               /\ job'[j].status = "failed"
               /\ site' = site
               /\ (SiteExists(s) /\ job[j].writes # << >>)
                    => site'[s].status = job[j].writes[Len(job[j].writes)]
          \* a step that throws writes nothing
          /\ Throws(j) => site' = site
          \* provisionSite threw
          /\ (job[j].pc = "prov_wp" /\ Throws(j)) =>
               /\ site'[s].status = "provisioning"
               /\ job'[j].writes = <<"provisioning">>
          \* applyThemeAndPlugins or handleGenerate threw in a provision job
          /\ (job[j].handler = "handleProvision" /\ Throws(j)
                /\ job[j].pc \in {"prov_theme"} \cup GeneratePcs) =>
               /\ site'[s].status = "generating"
               /\ site'[s].wpSiteId # NoId
               /\ site'[s].wpSiteId = job[j].wpResult.wpSiteId
               /\ job'[j].writes = <<"provisioning", "generating">>

\* C22: the job processor never writes the site status error; when a job
\* fails the site keeps the last status written before the failure: a
\* provision job that fails in the WordPress create step leaves the site in
\* provisioning, and one that fails in the theme step or in generation
\* leaves it in generating with wpSiteId set.
C22_StatusAfterFailure == []C22_State /\ [][C22_Step]_vars

\* one provision job failed in the create step and a second one failed after
\* the WordPress fields were stored: the site is left in generating
C22_Witness ==
    \E j, k \in JobIds :
        /\ job[j].type = "provision" /\ job[j].status = "failed"
        /\ job[j].writes = <<"provisioning">>
        /\ job[k].type = "provision" /\ job[k].status = "failed"
        /\ job[k].writes = <<"provisioning", "generating">>
        /\ job[k].siteId = job[j].siteId
        /\ site[job[k].siteId].status = "generating"
        /\ site[job[k].siteId].wpSiteId # NoId

(***************************************************************************)
(* Publish and rollback jobs of one site with publishVersion split at its  *)
(* WP-CLI commands.  Every command succeeds and NODE_ENV is not            *)
(* development.  wp holds the pages of the subsite, each with the id of    *)
(* the version whose content it carries, and for every job the position    *)
(* of its publishVersion call.                                             *)
(***************************************************************************)
\* slugs of content.pages, the same for every version of the site
VersionSlugs == <<"home", "contact">>

\* a page of the subsite with content compiled from version v
VersionPost(slug, v) == [slug |-> slug, version |-> v]

\* a publishVersion call that has not begun
NotCalled == [pc |-> "list", i |-> 1, ids |-> << >>]

\* site s1 has two versions, the newer one current; the subsite is empty or
\* holds the pages of an earlier publish of the older version
InitInterleaved ==
    /\ \E before \in BOOLEAN :
         /\ site = [s \in SiteIds |->
                     IF s = "s2"
                     THEN [DraftSite(s, 3, 1) EXCEPT !.status = "published",
                                                     !.publishedVersionId = 1]
                     ELSE [DraftSite(s, 2, 3) EXCEPT
                             !.publishedVersionId = IF before THEN 2 ELSE NoId]]
         /\ wp = [posts |-> IF before
                            THEN [i \in 1..Len(VersionSlugs) |->
                                    VersionPost(VersionSlugs[i], 2)]
                            ELSE << >>,
                  last |-> IF before THEN 2 ELSE NoId,
                  showOnFront |-> IF before THEN "page" ELSE "posts",
                  pageOnFront |-> IF before THEN 1 ELSE 0,
                  call |-> [j \in JobIds |-> NotCalled]]
    /\ versions = <<SeedVersion("s2"), SeedVersion("s1"),
                    [SeedVersion("s1") EXCEPT !.versionNumber = 2]>>
    /\ job = [j \in JobIds |-> NoJob]
    /\ workers = MaxWorkers
    /\ devMode = FALSE
    /\ AiRest /\ BlkRest /\ PgRest /\ BillRest /\ AuthRest

\* a publish or rollback job for site s1 is queued
EnqueuePublishing(j) ==
    /\ Enqueue(j)
    /\ job'[j].type \in {"publish", "rollback"}
    /\ job'[j].siteId = "s1"

\* job j is inside publishVersion
InPublishVersion(j) == job[j].pc \in {"pub_wp", "rb_wp"}

\* the handler's step after publishVersion has returned
AfterPublishVersion(j) == IF job[j].pc = "pub_wp" THEN "pub_update" ELSE "rb_update"

\* `post list --name=slug` of page i answers
InterleavedList(j) ==
    /\ InPublishVersion(j)
    /\ wp.call[j].pc = "list"
    /\ wp' = [wp EXCEPT !.call[j].ids = PostList(wp.posts, VersionSlugs[wp.call[j].i]),
                        !.call[j].pc = "write"]
    /\ UNCHANGED <<jobVars, ai, blk, pg, bill, auth>>

\* `post update` of the first id listed, else `post create`, of page i answers
InterleavedWrite(j) ==
    /\ InPublishVersion(j)
    /\ wp.call[j].pc = "write"
    /\ LET c == wp.call[j]
           v == job[j].version
           posts == IF c.ids # << >>
                    THEN [wp.posts EXCEPT ![Head(c.ids)].version = v]
                    ELSE Append(wp.posts, VersionPost(VersionSlugs[c.i], v)) IN
         wp' = [wp EXCEPT !.posts = posts,
                          !.last = v,
                          !.call[j].pc = IF c.i < Len(VersionSlugs) THEN "list"
                                         ELSE "home_list",
                          !.call[j].i = IF c.i < Len(VersionSlugs) THEN c.i + 1 ELSE c.i]
    /\ UNCHANGED <<jobVars, ai, blk, pg, bill, auth>>

\* `post list --name="home"` answers; publishVersion returns when it is empty
InterleavedHomeList(j) ==
    /\ InPublishVersion(j)
    /\ wp.call[j].pc = "home_list"
    /\ LET homePageId == PostList(wp.posts, "home") IN
         IF homePageId # << >>
         THEN /\ wp' = [wp EXCEPT !.call[j].ids = homePageId,
                                  !.call[j].pc = "show_on_front"]
              /\ UNCHANGED job
         ELSE /\ wp' = [wp EXCEPT !.call[j] = NotCalled]
              /\ job' = [job EXCEPT ![j].pc = AfterPublishVersion(j)]
    /\ UNCHANGED <<site, versions, workers, devMode, ai, blk, pg, bill, auth>>

\* `option update show_on_front page` answers
InterleavedShowOnFront(j) ==
    /\ InPublishVersion(j)
    /\ wp.call[j].pc = "show_on_front"
    /\ wp' = [wp EXCEPT !.showOnFront = "page", !.call[j].pc = "page_on_front"]
    /\ UNCHANGED <<jobVars, ai, blk, pg, bill, auth>>

\* `option update page_on_front` answers and publishVersion returns
InterleavedPageOnFront(j) ==
    /\ InPublishVersion(j)
    /\ wp.call[j].pc = "page_on_front"
    /\ wp' = [wp EXCEPT !.pageOnFront = Head(wp.call[j].ids), !.call[j] = NotCalled]
    /\ job' = [job EXCEPT ![j].pc = AfterPublishVersion(j)]
    /\ UNCHANGED <<site, versions, workers, devMode, ai, blk, pg, bill, auth>>

InterleavedStep(j) ==
    \/ EnqueuePublishing(j)
    \/ Start(j)
    \/ Dispatch(j)
    \/ Complete(j)
    \/ Catch(j)
    \/ PublishFind(j)
    \/ PublishVersion(j)
    \/ PublishUpdate(j)
    \/ RollbackFind(j)
    \/ RollbackVersion(j)
    \/ RollbackUpdate(j)
    \/ InterleavedList(j)
    \/ InterleavedWrite(j)
    \/ InterleavedHomeList(j)
    \/ InterleavedShowOnFront(j)
    \/ InterleavedPageOnFront(j)

NextInterleaved == \E j \in JobIds : InterleavedStep(j)

\* several worker processes on the same queue
SpecInterleaved == InitInterleaved /\ [][NextInterleaved]_vars

\* the same jobs taken by one worker with the default concurrency
SpecOneAtATime ==
    /\ InitInterleaved
    /\ [][NextInterleaved /\ Cardinality(Active) <= WorkerConcurrency
                          /\ Cardinality(Active') <= WorkerConcurrency]_vars

\* every job that was queued has completed, and there is one
AllCompleted ==
    /\ \E j \in JobIds : job[j].pc = "done"
    /\ \A j \in JobIds : job[j].pc \in {"absent", "done"}
    /\ \A j \in JobIds : job[j].pc = "done" => job[j].status = "completed"

\* C23: once all publish and rollback jobs of a site have completed,
\* whatever their interleaving, the site's publishedVersionId is the id of
\* the version whose content was written to WordPress last, and every page in
\* WordPress carries content of that one version.
C23_PublishedMatchesWordPress ==
    AllCompleted =>
        /\ site["s1"].publishedVersionId = wp.last
        /\ \A p \in 1..Len(wp.posts) : wp.posts[p].version = wp.last

\* a publish job and a rollback job have both completed and the site row
\* names a version that is not the one WordPress was last written with
C23_Diverged ==
    /\ AllCompleted
    /\ \E j, k \in JobIds :
         /\ job[j].handler = "handlePublish"
         /\ job[k].handler = "handleRollback"
    /\ site["s1"].publishedVersionId # wp.last

\* both jobs have completed and the pages of the subsite carry content of
\* different versions
C23_Mixed ==
    /\ AllCompleted
    /\ \E p, q \in 1..Len(wp.posts) : wp.posts[p].version # wp.posts[q].version

(***************************************************************************)
(* The gate of handleWebhook.                                              *)
(***************************************************************************)
\* event types the switch of handleWebhook has a case for
HandledTypes ==
    {"checkout.session.completed", "customer.subscription.created",
     "customer.subscription.updated", "customer.subscription.deleted"}

\* what a call of handleWebhook with this signature and event has to obey
C24_Gate(signatureOk, event) ==
    LET outcome == bill'.last.outcome
        same == bill'.subs = bill.subs IN
      /\ ~bill.stripe => (outcome = "skipped" /\ same)
      /\ (bill.stripe /\ (~bill.webhookSecret \/ ~signatureOk))
           => (outcome = "bad_request" /\ same)
      /\ (bill.stripe /\ bill.webhookSecret /\ signatureOk
            /\ event.type \notin HandledTypes)
           => (outcome = "ok" /\ same)
      /\ ~same => (bill.stripe /\ bill.webhookSecret /\ signatureOk
                     /\ event.type \in HandledTypes)
      /\ bill'.stripe = bill.stripe
      /\ bill'.webhookSecret = bill.webhookSecret

C24_Step ==
    \A signatureOk \in BOOLEAN, event \in WebhookEvents :
        HandleWebhook(signatureOk, event) => C24_Gate(signatureOk, event)

\* C24: handleWebhook changes no subscription row unless Stripe is
\* configured, a webhook secret is configured and the signature verifies;
\* with Stripe unconfigured it returns without error, with the secret missing
\* or the signature invalid it fails with BadRequest; a verified event of a
\* type other than the four handled ones leaves all rows unchanged and
\* returns without error.
C24_WebhookGatekeeping == [][C24_Step]_vars

\* with Stripe and the secret configured a webhook was refused, after an
\* earlier webhook had written a row
C24_Witness ==
    /\ bill # None
    /\ bill.stripe /\ bill.webhookSecret
    /\ bill.last.op = "handleWebhook"
    /\ bill.last.outcome = "bad_request"
    /\ \E id \in SubIds : bill.subs[id] = SubRow("u2", "trialing")

====
